---- MODULE Spec2Model ----
(***************************************************************************)
(* A model of the anubhav-lang pipeline: Lexer (src/src/lang/lexer.rs),    *)
(* Parser (src/src/parser.rs) and the tree-walking Interpreter             *)
(* (src/src/core/interpreter.rs).                                          *)
(*                                                                         *)
(* The recursion of Interpreter::execute is kept as an explicit stack of   *)
(* activations (ctl): one record per execute(body) call that has not       *)
(* returned, innermost last, each remembering the construct that made the  *)
(* call.  `signal` is the Result<(), String> an activation has just        *)
(* returned to its caller.                                                 *)
(*                                                                         *)
(* Numbers.  An f64 is modelled as <<i, h, l>> = i + (h*2^16 + l) / 2^32,  *)
(* i an integer and h, l 16-bit limbs: the integers and the RANDOM()       *)
(* draws seed/2^32 are exact in this form (and in f64).  TLC's integers    *)
(* are 32 bits wide, so the 32-bit seed is kept as two limbs <<h, l>>.     *)
(*                                                                         *)
(* Strings.  An error message is a sequence of pieces, the pieces of its   *)
(* format! template; the text of a number is its sequence of characters.   *)
(***************************************************************************)
EXTENDS Integers, Sequences, FiniteSets, TLC

VARIABLES
    pc,            \* "start" | "run" | "done": position in main / the caller
    prog,          \* the input chosen: a source text or a statement list
    ctl,           \* activations of Interpreter::execute, innermost last
    signal,        \* result just returned by the innermost execute call
    outcome,       \* what main saw: "none" | "ok" | "parse" | "runtime"
    intents,       \* Interpreter.intents
    calculations,  \* Interpreter.calculations
    variables,     \* Interpreter.variables
    arrays,        \* Interpreter.arrays
    functions,     \* Interpreter.functions
    call_stack,    \* Interpreter.call_stack
    random_seed,   \* Interpreter.random_seed, as limbs <<h, l>>
    draws,         \* history: number of next_random() calls so far
    dicts,         \* Interpreter.dicts
    first,         \* what the first of two evaluators left, once it is done
    lexing,        \* a Lexer whose next_token is called directly
    returned,      \* the Tokens the calls of next_token on it have returned
    console,       \* the lines PRINT has written to standard output
    parsing,       \* a call of Parser::parse in progress: parser, statements
    written        \* the files fs::write has written, by name

vars == <<pc, prog, ctl, signal, outcome, intents, calculations, variables,
          arrays, functions, call_stack, random_seed, draws, dicts, first, lexing,
          returned, written, console, parsing>>

(***************************************************************************)
(* Bounds of the model.                                                    *)
(***************************************************************************)
MaxCount == 3

(***************************************************************************)
(* HashMap<String, _>                                                      *)
(***************************************************************************)
EmptyMap == [k \in {} |-> 0]

Has(m, k) == k \in DOMAIN m

Put(m, k, v) == [x \in (DOMAIN m) \cup {k} |-> IF x = k THEN v ELSE m[x]]

Last(s) == s[Len(s)]

Front(s) == SubSeq(s, 1, Len(s) - 1)

(***************************************************************************)
(* f64 arithmetic on <<i, h, l>>.                                          *)
(***************************************************************************)
Limb == 256 * 256

N(n) == <<n, 0, 0>>

IsInt(v) == v[2] = 0 /\ v[3] = 0

RECURSIVE IntPow(_, _)
IntPow(b, e) == IF e = 0 THEN 1 ELSE b * IntPow(b, e - 1)

\* the number of bits of an integral part i >= 0
BitLength(i) ==
    CHOOSE k \in 0..31 : IntPow(2, k) > i /\ (k = 0 \/ IntPow(2, k - 1) <= i)

\* the low limb with its remainder modulo q rounded off, a tie to the even
\* neighbour
RoundOff(rem, down, q) ==
    IF rem * 2 > q \/ (rem * 2 = q /\ (down \div q) % 2 = 1) THEN down + q
    ELSE down

\* a number of three parts whose lower two may exceed a limb
Carry(i, h, l) ==
    <<i + ((h + (l \div Limb)) \div Limb), (h + (l \div Limb)) % Limb, l % Limb>>

RoundToUnit(v, q) == Carry(v[1], v[2], RoundOff(v[3] % q, v[3] - (v[3] % q), q))

\* the 53-bit significand: v >= 0 with an integral part of 22 bits or more
\* keeps fewer than 32 bits of its fraction, the rest is rounded off, a tie
\* to the even neighbour
RoundToF64(v) ==
    IF v[1] < IntPow(2, 21) THEN v
    ELSE RoundToUnit(v, IntPow(2, BitLength(v[1]) - 21))

\* the sum before it is rounded
Rounded(v) == IF v[1] >= 0 THEN RoundToF64(v) ELSE v

FAdd(a, b) == Rounded(Carry(a[1] + b[1], a[2] + b[2], a[3] + b[3]))

FNeg(a) ==
    IF IsInt(a) THEN <<0 - a[1], 0, 0>>
    ELSE IF a[3] > 0 THEN <<(0 - a[1]) - 1, (Limb - 1) - a[2], Limb - a[3]>>
    ELSE <<(0 - a[1]) - 1, Limb - a[2], 0>>

FSub(a, b) == FAdd(a, FNeg(b))

FLt(a, b) ==
    \/ a[1] < b[1]
    \/ a[1] = b[1] /\ a[2] < b[2]
    \/ a[1] = b[1] /\ a[2] = b[2] /\ a[3] < b[3]

FLe(a, b) == a = b \/ FLt(a, b)

Abs(n) == IF n < 0 THEN 0 - n ELSE n

\* v * n for an integer n >= 0
FScale(v, n) ==
    LET l == v[3] * n
        h == v[2] * n + (l \div Limb)
    IN  <<v[1] * n + (h \div Limb), h % Limb, l % Limb>>

\* a * b, one operand integral
FMul(a, b) ==
    CASE IsInt(b) -> IF b[1] >= 0 THEN FScale(a, b[1]) ELSE FNeg(FScale(a, 0 - b[1]))
      [] IsInt(a) -> IF a[1] >= 0 THEN FScale(b, a[1]) ELSE FNeg(FScale(b, 0 - a[1]))

\* a / b for integers with an exact quotient, b # 0
FDiv(a, b) ==
    CASE IsInt(a) /\ IsInt(b) /\ Abs(a[1]) % Abs(b[1]) = 0 ->
           LET q == Abs(a[1]) \div Abs(b[1])
           IN  IF (a[1] < 0) = (b[1] < 0) THEN N(q) ELSE N(0 - q)

\* a % b of f64 (fmod: the sign of the dividend) for integers, b # 0
FRem(a, b) ==
    CASE IsInt(a) /\ IsInt(b) ->
           LET r == Abs(a[1]) % Abs(b[1])
           IN  IF a[1] < 0 THEN N(0 - r) ELSE N(r)

\* powf for an integral base and an integral exponent >= 0
FPow(a, b) ==
    CASE IsInt(a) /\ IsInt(b) /\ b[1] >= 0 -> N(IntPow(a[1], b[1]))

FFloor(v) == N(v[1])

FCeil(v) == IF IsInt(v) THEN v ELSE N(v[1] + 1)

\* f64::round: half away from zero
FRound(v) ==
    LET half == Limb \div 2
    IN  IF IsInt(v) THEN v
        ELSE IF v[1] >= 0 THEN (IF v[2] >= half THEN N(v[1] + 1) ELSE N(v[1]))
        ELSE IF v[2] > half \/ (v[2] = half /\ v[3] > 0) THEN N(v[1] + 1)
        ELSE N(v[1])

FMin(a, b) == IF FLt(b, a) THEN b ELSE a

FMax(a, b) == IF FLt(a, b) THEN b ELSE a

Bool(b) == IF b THEN N(1) ELSE N(0)

\* `x as usize`: truncation toward zero, saturating at 0
AsUsize(v) == IF v[1] < 0 THEN 0 ELSE v[1]

(***************************************************************************)
(* Text of numbers: format!("{}", f64) and str::parse::<f64>().  An        *)
(* integral value prints as its decimal digits ("5", "-3"); a value with   *)
(* a fraction prints the exact decimal expansion of the fraction, which    *)
(* is finite for a binary fraction and parses back to the same value, as   *)
(* the shortest round-trip expansion Rust prints does.                     *)
(***************************************************************************)
DigitChars == <<"0", "1", "2", "3", "4", "5", "6", "7", "8", "9">>

IsDigit(c) == \E d \in 1..10 : DigitChars[d] = c

DigitVal(c) == (CHOOSE d \in 1..10 : DigitChars[d] = c) - 1

RECURSIVE Digits(_)
Digits(n) ==
    IF n < 10 THEN <<DigitChars[n + 1]>>
    ELSE Digits(n \div 10) \o <<DigitChars[(n % 10) + 1]>>

\* the decimal digits of the fraction (h * Limb + l) / Limb^2, exactly
RECURSIVE FormatFrac(_, _)
FormatFrac(h, l) ==
    IF h = 0 /\ l = 0 THEN <<>>
    ELSE LET l10 == l * 10
             h10 == h * 10 + (l10 \div Limb)
         IN  <<DigitChars[(h10 \div Limb) + 1]>> \o FormatFrac(h10 % Limb, l10 % Limb)

FormatMag(v) ==
    IF IsInt(v) THEN Digits(v[1])
    ELSE Digits(v[1]) \o <<".">> \o FormatFrac(v[2], v[3])

\* Display for f64: "5" for 5.0, "-0.5" for -0.5
FormatF64(v) ==
    IF v[1] < 0 THEN <<"-">> \o FormatMag(FNeg(v)) ELSE FormatMag(v)

IndexOf(s, c) ==
    IF \E i \in 1..Len(s) : s[i] = c
    THEN CHOOSE i \in 1..Len(s) : s[i] = c /\ \A j \in 1..(i - 1) : s[j] # c
    ELSE 0

RECURSIVE ParseNat(_, _)
ParseNat(s, acc) ==
    IF s = <<>> THEN acc ELSE ParseNat(Tail(s), acc * 10 + DigitVal(Head(s)))

AllDigits(s) == \A i \in 1..Len(s) : IsDigit(s[i])

\* twice the decimal fraction 0.ds: the digits of its fraction and the carry;
\* a digit receives a carry exactly when the digit after it is 5 or more
DoubleFrac(ds) ==
    LET From(i) == IF i <= Len(ds) /\ DigitVal(ds[i]) >= 5 THEN 1 ELSE 0
    IN  [ds |-> [i \in 1..Len(ds) |->
                    DigitChars[((2 * DigitVal(ds[i]) + From(i + 1)) % 10) + 1]],
         carry |-> From(1)]

\* the next n binary digits of the decimal fraction 0.ds
RECURSIVE FracBits(_, _, _)
FracBits(ds, n, acc) ==
    IF n = 0 THEN [val |-> acc, ds |-> ds]
    ELSE LET d == DoubleFrac(ds) IN FracBits(d.ds, n - 1, 2 * acc + d.carry)

ParseMag(s) ==
    LET dot == IndexOf(s, ".")
        ip  == IF dot = 0 THEN s ELSE SubSeq(s, 1, dot - 1)
        fr  == IF dot = 0 THEN <<>> ELSE SubSeq(s, dot + 1, Len(s))
        h   == FracBits(fr, 16, 0)
        l   == FracBits(h.ds, 16, 0)
    IN  IF AllDigits(ip) /\ AllDigits(fr) /\ Len(ip) + Len(fr) > 0
        THEN [ok |-> TRUE, val |-> <<ParseNat(ip, 0), h.val, l.val>>]
        ELSE [ok |-> FALSE, val |-> N(0)]

\* str::parse::<f64>
ParseF64(s) ==
    IF s # <<>> /\ Head(s) = "-"
    THEN LET m == ParseMag(Tail(s))
         IN  [ok |-> m.ok, val |-> FNeg(m.val)]
    ELSE ParseMag(s)

(***************************************************************************)
(* The pseudo-random generator.                                            *)
(***************************************************************************)
InitialSeed == 12345

LcgA == 1664525

LcgC == 1013904223

SeedOf(n) == <<n \div Limb, n % Limb>>

\* a recurrence without the increment
NextSeedWithoutIncrement(s) ==
    LET t0 == (LcgA % Limb) * s[2]
        t1 == (LcgA % Limb) * s[1] + (LcgA \div Limb) * s[2] + (t0 \div Limb)
    IN  <<t1 % Limb, t0 % Limb>>

\* (seed * LcgA + LcgC) % 2^32 on limbs; the u64 product does not wrap
\* because seed < 2^32
NextSeed(s) ==
    LET t0 == (LcgA % Limb) * s[2] + (LcgC % Limb)
        t1 == (LcgA % Limb) * s[1] + (LcgA \div Limb) * s[2]
              + (LcgC \div Limb) + (t0 \div Limb)
    IN  <<t1 % Limb, t0 % Limb>>

\* the generator state: the seed and the count of draws
next_random(rng) ==
    LET s == NextSeed(rng.seed)
    IN  [rng |-> [seed |-> s, draws |-> rng.draws + 1], val |-> <<0, s[1], s[2]>>]

(***************************************************************************)
(* Result<f64, String> of evaluate_expression, with the generator state    *)
(* it leaves and dz: whether a Slash or Percent node was applied to a      *)
(* right operand equal to 0.                                               *)
(***************************************************************************)
EOk(v, rng, dz) == [ok |-> TRUE, val |-> v, msg |-> <<>>, rng |-> rng, dz |-> dz]

EErr(m, rng, dz) == [ok |-> FALSE, val |-> N(0), msg |-> m, rng |-> rng, dz |-> dz]

\* the interpreter state an expression reads
Self == [call_stack |-> call_stack, variables |-> variables,
         calculations |-> calculations, intents |-> intents, arrays |-> arrays]

Rng == [seed |-> random_seed, draws |-> draws]

\* a lookup that consults Variables before the frame of the call
RecallLookupGlobalsFirst(st, name) ==
    IF Has(st.variables, name) THEN <<st.variables[name]>>
    ELSE IF st.call_stack # <<>> /\ Has(Last(st.call_stack), name)
    THEN <<Last(st.call_stack)[name]>>
    ELSE IF Has(st.calculations, name) THEN <<st.calculations[name]>>
    ELSE <<>>

\* a lookup that yields 0 for a name it finds nowhere
RecallLookupDefaultsToZero(st, name) ==
    IF st.call_stack # <<>> /\ Has(Last(st.call_stack), name)
    THEN <<Last(st.call_stack)[name]>>
    ELSE IF Has(st.variables, name) THEN <<st.variables[name]>>
    ELSE IF Has(st.calculations, name) THEN <<st.calculations[name]>>
    ELSE <<N(0)>>

\* a lookup that searches every frame of the call stack, innermost first
RECURSIVE FrameLookup(_, _)
FrameLookup(frames, name) ==
    IF frames = <<>> THEN <<>>
    ELSE IF Has(Last(frames), name) THEN <<Last(frames)[name]>>
    ELSE FrameLookup(Front(frames), name)

RecallLookupAllFrames(st, name) ==
    IF FrameLookup(st.call_stack, name) # <<>> THEN FrameLookup(st.call_stack, name)
    ELSE IF Has(st.variables, name) THEN <<st.variables[name]>>
    ELSE IF Has(st.calculations, name) THEN <<st.calculations[name]>>
    ELSE <<>>

\* Expression::Recall: Option<f64>, as a sequence of length 0 or 1
RecallLookup(st, name) ==
    IF st.call_stack # <<>> /\ Has(Last(st.call_stack), name)
    THEN <<Last(st.call_stack)[name]>>
    ELSE IF Has(st.variables, name) THEN <<st.variables[name]>>
    ELSE IF Has(st.calculations, name) THEN <<st.calculations[name]>>
    ELSE <<>>

\* a division that yields 0 for a zero divisor instead of failing
SlashOpUnchecked(l, r) ==
    [ok |-> TRUE, val |-> IF r = N(0) THEN N(0) ELSE FDiv(l, r), msg |-> <<>>]

SlashOp(l, r) ==
    IF r = N(0) THEN [ok |-> FALSE, val |-> N(0), msg |-> <<"Division by zero">>]
    ELSE [ok |-> TRUE, val |-> FDiv(l, r), msg |-> <<>>]

PercentOp(l, r) ==
    IF r = N(0) THEN [ok |-> FALSE, val |-> N(0), msg |-> <<"Modulo by zero">>]
    ELSE [ok |-> TRUE, val |-> FRem(l, r), msg |-> <<>>]

\* the length in bytes of the strings the programs use
StrLen(s) ==
    CASE s = "" -> 0
      [] s = "hi" -> 2
      [] s = "hello" -> 5

\* the match on the operator, after both operands are evaluated
ApplyOperator(st, expr, l, r, rng, dz) ==
    LET op == expr.operator
    IN  CASE op = "Plus" -> EOk(FAdd(l, r), rng, dz)
          [] op = "Minus" -> EOk(FSub(l, r), rng, dz)
          [] op = "Star" -> EOk(FMul(l, r), rng, dz)
          [] op = "Slash" ->
               LET q == SlashOp(l, r)
               IN  IF q.ok THEN EOk(q.val, rng, dz \/ r = N(0))
                   ELSE EErr(q.msg, rng, dz \/ r = N(0))
          [] op = "Percent" ->
               LET q == PercentOp(l, r)
               IN  IF q.ok THEN EOk(q.val, rng, dz \/ r = N(0))
                   ELSE EErr(q.msg, rng, dz \/ r = N(0))
          [] op = "Power" -> EOk(FPow(l, r), rng, dz)
          [] op = "Equal" -> EOk(Bool(l = r), rng, dz)
          [] op = "NotEqual" -> EOk(Bool(l # r), rng, dz)
          [] op = "Less" -> EOk(Bool(FLt(l, r)), rng, dz)
          [] op = "Greater" -> EOk(Bool(FLt(r, l)), rng, dz)
          [] op = "LessEqual" -> EOk(Bool(FLe(l, r)), rng, dz)
          [] op = "GreaterEqual" -> EOk(Bool(FLe(r, l)), rng, dz)
          [] op = "And" -> EOk(Bool(l # N(0) /\ r # N(0)), rng, dz)
          [] op = "Or" -> EOk(Bool(l # N(0) \/ r # N(0)), rng, dz)
          [] op = "Not" -> EOk(Bool(r = N(0)), rng, dz)
          [] op = "Min" -> EOk(FMin(l, r), rng, dz)
          [] op = "Max" -> EOk(FMax(l, r), rng, dz)
          [] op = "Floor" -> EOk(FFloor(r), rng, dz)
          [] op = "Ceil" -> EOk(FCeil(r), rng, dz)
          [] op = "Round" -> EOk(FRound(r), rng, dz)
          [] op = "Random" ->
               LET d == next_random(rng) IN EOk(d.val, d.rng, dz)
          [] op = "Length" ->
               IF expr.left.e = "Recall"
               THEN IF Has(st.intents, expr.left.name)
                    THEN EOk(N(StrLen(st.intents[expr.left.name])), rng, dz)
                    ELSE EErr(<<"String '", expr.left.name, "' not found for LENGTH">>,
                              rng, dz)
               ELSE EErr(<<"LENGTH function error">>, rng, dz)
          [] op = "Size" ->
               IF expr.left.e = "Recall"
               THEN IF Has(st.arrays, expr.left.name)
                    THEN EOk(N(Len(st.arrays[expr.left.name])), rng, dz)
                    ELSE EErr(<<"Array '", expr.left.name, "' not found for SIZE">>,
                              rng, dz)
               ELSE EErr(<<"SIZE function error">>, rng, dz)
          [] OTHER -> EErr(<<"Invalid operator: ", op>>, rng, dz)

\* an evaluator whose AND and OR skip the right operand when the left one
\* decides the result
RECURSIVE EvaluateShortCircuit(_, _, _)
EvaluateShortCircuit(st, expr, rng) ==
    CASE expr.e = "Number" -> EOk(expr.n, rng, FALSE)
      [] expr.e = "Recall" ->
           LET v == RecallLookup(st, expr.name)
           IN  IF v # <<>> THEN EOk(v[1], rng, FALSE)
               ELSE EErr(<<"Variable '", expr.name, "' not found">>, rng, FALSE)
      [] expr.e = "BinaryOp" ->
           LET l == EvaluateShortCircuit(st, expr.left, rng)
           IN  IF ~l.ok THEN l
               ELSE IF expr.operator = "And" /\ l.val = N(0)
               THEN EOk(N(0), l.rng, l.dz)
               ELSE IF expr.operator = "Or" /\ l.val # N(0)
               THEN EOk(N(1), l.rng, l.dz)
               ELSE LET r == EvaluateShortCircuit(st, expr.right, l.rng)
                    IN  IF ~r.ok THEN [r EXCEPT !.dz = l.dz \/ r.dz]
                        ELSE ApplyOperator(st, expr, l.val, r.val, r.rng,
                                           l.dz \/ r.dz)

RECURSIVE evaluate_expression(_, _, _)
evaluate_expression(st, expr, rng) ==
    CASE expr.e = "Number" -> EOk(expr.n, rng, FALSE)
      [] expr.e = "Recall" ->
           LET v == RecallLookup(st, expr.name)
           IN  IF v # <<>> THEN EOk(v[1], rng, FALSE)
               ELSE EErr(<<"Variable '", expr.name, "' not found">>, rng, FALSE)
      [] expr.e = "BinaryOp" ->
           LET l == evaluate_expression(st, expr.left, rng)
           IN  IF ~l.ok THEN l
               ELSE LET r == evaluate_expression(st, expr.right, l.rng)
                    IN  IF ~r.ok THEN [r EXCEPT !.dz = l.dz \/ r.dz]
                        ELSE ApplyOperator(st, expr, l.val, r.val, r.rng,
                                           l.dz \/ r.dz)

\* expression constructors
Num(n) == [e |-> "Number", n |-> N(n)]

Recall(name) == [e |-> "Recall", name |-> name]

Bin(l, op, r) == [e |-> "BinaryOp", left |-> l, operator |-> op, right |-> r]

(***************************************************************************)
(* Statements (parser.rs, enum Statement) as records; an Option<T> is a    *)
(* sequence of length 0 (None) or 1 (Some).                                *)
(***************************************************************************)
IntentDeclaration(name, message) ==
    [op |-> "IntentDeclaration", name |-> name, message |-> message]

Calculate(name, expression) ==
    [op |-> "Calculate", name |-> name, expression |-> expression]

Store(name, value) == [op |-> "Store", name |-> name, value |-> value]

Repeat(count, body) == [op |-> "Repeat", count |-> count, body |-> body]

If(condition, then_body, else_body) ==
    [op |-> "If", condition |-> condition, then_body |-> then_body,
     else_body |-> else_body]

While(condition, body) == [op |-> "While", condition |-> condition, body |-> body]

Increment(variable) == [op |-> "Increment", variable |-> variable]

Decrement(variable) == [op |-> "Decrement", variable |-> variable]

For(variable, start, end, step, body) ==
    [op |-> "For", variable |-> variable, start |-> start, end |-> end,
     step |-> step, body |-> body]

AssertStmt(condition, message) ==
    [op |-> "Assert", condition |-> condition, message |-> message]

TryCatch(try_body, catch_body) ==
    [op |-> "TryCatch", try_body |-> try_body, catch_body |-> catch_body]

ArrayCreate(name) == [op |-> "ArrayCreate", name |-> name]

ArrayPush(array_name, value) ==
    [op |-> "ArrayPush", array_name |-> array_name, value |-> value]

ArrayPop(array_name, result_name) ==
    [op |-> "ArrayPop", array_name |-> array_name, result_name |-> result_name]

ArrayGet(array_name, index, result_name) ==
    [op |-> "ArrayGet", array_name |-> array_name, index |-> index,
     result_name |-> result_name]

Break == [op |-> "Break"]

Continue == [op |-> "Continue"]

FunctionDefinition(name, parameters, body) ==
    [op |-> "FunctionDefinition", name |-> name, parameters |-> parameters,
     body |-> body]

FunctionCall(function_name, arguments, result_name) ==
    [op |-> "FunctionCall", function_name |-> function_name,
     arguments |-> arguments, result_name |-> result_name]

Return(value) == [op |-> "Return", value |-> value]

ArraySort(array_name, ascending) ==
    [op |-> "ArraySort", array_name |-> array_name, ascending |-> ascending]

Shuffle(array_name) == [op |-> "Shuffle", array_name |-> array_name]

Import(filename) == [op |-> "Import", filename |-> filename]

StringTransform(name, operation, source) ==
    [op |-> "StringTransform", name |-> name, operation |-> operation,
     source |-> source]

Export(items, filename) == [op |-> "Export", items |-> items, filename |-> filename]

ArrayFilter(array_name, condition, result_array) ==
    [op |-> "ArrayFilter", array_name |-> array_name, condition |-> condition,
     result_array |-> result_array]

ArrayMap(array_name, expression, result_array) ==
    [op |-> "ArrayMap", array_name |-> array_name, expression |-> expression,
     result_array |-> result_array]

DictCreate(name) == [op |-> "DictCreate", name |-> name]

DictPut(dict_name, key, value) ==
    [op |-> "DictPut", dict_name |-> dict_name, key |-> key, value |-> value]

ArraySet(array_name, index, value) ==
    [op |-> "ArraySet", array_name |-> array_name, index |-> index, value |-> value]

\* COMBINE part... INTO name; a part is the String parse_combine pushed: a
\* string literal as it is, an identifier id as "${id}"
Combine(name, parts) == [op |-> "Combine", name |-> name, parts |-> parts]

\* PRINT item...; the items are made as the parts of COMBINE are
PrintStmt(items) == [op |-> "Print", items |-> items]

\* the String format!("${{{}}}", id) makes of an identifier
Placeholder(id) == "${" \o id \o "}"

\* SWITCH expression CASE value DO .. [DEFAULT DO ..] END; cases are
\* <<value, body>> pairs, default_case an Option
Switch(expression, cases, default_case) ==
    [op |-> "Switch", expression |-> expression, cases |-> cases,
     default_case |-> default_case]

\* RANGE start end [STEP step] INTO result_array; step is an Option
Range(start, end, step, result_array) ==
    [op |-> "Range", start |-> start, end |-> end, step |-> step,
     result_array |-> result_array]

DictFetch(dict_name, key, result_name) ==
    [op |-> "DictFetch", dict_name |-> dict_name, key |-> key,
     result_name |-> result_name]

DictValues(dict_name, result_array) ==
    [op |-> "DictValues", dict_name |-> dict_name, result_array |-> result_array]

Find(array_name, condition, result_name) ==
    [op |-> "Find", array_name |-> array_name, condition |-> condition,
     result_name |-> result_name]

Fold(array_name, initial, operation, result_name) ==
    [op |-> "Fold", array_name |-> array_name, initial |-> initial,
     operation |-> operation, result_name |-> result_name]

Count(array_name, condition, result_name) ==
    [op |-> "Count", array_name |-> array_name, condition |-> condition,
     result_name |-> result_name]

(***************************************************************************)
(* Result<(), String> of execute, and the tests the callers make on it.    *)
(***************************************************************************)
Run == [st |-> "run", msg |-> <<>>]

Ok == [st |-> "ok", msg |-> <<>>]

Err(m) == [st |-> "err", msg |-> m]

BreakMsg == <<"BREAK">>

ContinueMsg == <<"CONTINUE">>

ReturnMsg(v) == <<"RETURN:">> \o FormatF64(v)

StartsWithReturn(m) == m # <<>> /\ Head(m) = "RETURN:"

\* a message that is none of the three control-transfer codes
Genuine(m) == m # BreakMsg /\ m # ContinueMsg /\ ~StartsWithReturn(m)

\* a match in which BREAK ends the iteration only
RepeatMatchBreakContinues(r) ==
    CASE r.st = "err" /\ r.msg \in {BreakMsg, ContinueMsg} -> "continue"
      [] r.st = "err" -> "return_err"
      [] OTHER -> "ok"

\* match self.execute(body.clone()) in Repeat
RepeatMatch(r) ==
    CASE r.st = "err" /\ r.msg = BreakMsg -> "break"
      [] r.st = "err" /\ r.msg = ContinueMsg -> "continue"
      [] r.st = "err" -> "return_err"
      [] OTHER -> "ok"

\* a match in which every error ends the loop as BREAK does
WhileMatchAnyErrorBreaks(r) ==
    CASE r.st = "err" /\ r.msg = ContinueMsg -> "continue"
      [] r.st = "err" -> "break"
      [] OTHER -> "ok"

\* match self.execute(body.clone()) in While
WhileMatch(r) ==
    CASE r.st = "err" /\ r.msg = BreakMsg -> "break"
      [] r.st = "err" /\ r.msg = ContinueMsg -> "continue"
      [] r.st = "err" -> "return_err"
      [] OTHER -> "ok"

\* match self.execute(body.clone()) in For
ForMatch(r) ==
    CASE r.st = "err" /\ r.msg = BreakMsg -> "break"
      [] r.st = "err" /\ r.msg = ContinueMsg -> "continue"
      [] r.st = "err" -> "return_err"
      [] OTHER -> "ok"

\* a match that never runs the catch body
TryMatchIgnoresErrors(r) == "ok"

\* match self.execute(try_body.clone()) in TryCatch
TryMatch(r) == IF r.st = "err" THEN "catch" ELSE "ok"

\* a match without the arm for RETURN
CallMatchWithoutReturn(r) ==
    IF r.st = "ok" THEN [tag |-> "value", val |-> N(0)]
    ELSE [tag |-> "return_err", val |-> N(0)]

\* a match that confines BREAK and CONTINUE to the call, as it does RETURN
CallMatchConfines(r) ==
    CASE r.st = "ok" -> [tag |-> "value", val |-> N(0)]
      [] r.st = "err" /\ StartsWithReturn(r.msg) ->
           LET parsed == ParseF64(Tail(r.msg))
           IN  [tag |-> "value", val |-> IF parsed.ok THEN parsed.val ELSE N(0)]
      [] r.st = "err" /\ r.msg \in {BreakMsg, ContinueMsg} ->
           [tag |-> "value", val |-> N(0)]
      [] OTHER -> [tag |-> "return_err", val |-> N(0)]

\* match self.execute(func_body) in FunctionCall: the value returned, or
\* the error to propagate
CallMatch(r) ==
    CASE r.st = "ok" -> [tag |-> "value", val |-> N(0)]
      [] r.st = "err" /\ StartsWithReturn(r.msg) ->
           LET parsed == ParseF64(Tail(r.msg))
           IN  [tag |-> "value", val |-> IF parsed.ok THEN parsed.val ELSE N(0)]
      [] OTHER -> [tag |-> "return_err", val |-> N(0)]

(***************************************************************************)
(* Helpers of the statement handlers.                                      *)
(***************************************************************************)
\* arguments evaluated left to right; stops at the first error
RECURSIVE EvalArgs(_, _, _, _)
EvalArgs(st, args, rng, acc) ==
    IF args = <<>> THEN [ok |-> TRUE, vals |-> acc, msg |-> <<>>, rng |-> rng]
    ELSE LET r == evaluate_expression(st, Head(args), rng)
         IN  IF r.ok THEN EvalArgs(st, Tail(args), r.rng, Append(acc, r.val))
             ELSE [ok |-> FALSE, vals |-> acc, msg |-> r.msg, rng |-> r.rng]

\* a check that lets surplus arguments pass
ArityAtLeast(arg_values, params) == Len(arg_values) >= Len(params)

\* the parameter count check: arg_values.len() != params.len() fails
ArityFits(arg_values, params) == Len(arg_values) = Len(params)

\* local_vars.insert(param, arg_values[i]) for each parameter in order
RECURSIVE BindParams(_, _, _)
BindParams(params, vals, acc) ==
    IF params = <<>> THEN acc
    ELSE BindParams(Tail(params), Tail(vals), Put(acc, Head(params), Head(vals)))

\* a pop that the arm of a failed body leaves out
CallStackPopOnSuccess(stack, tag) ==
    IF tag = "return_err" THEN stack ELSE Front(stack)

\* self.call_stack.pop(), in the Err(e) arm and after the match
call_stack_pop(stack, tag) == Front(stack)

\* the comparator of sort_by: a before b
SortBefore(a, b, ascending) == IF ascending THEN FLt(a, b) ELSE FLt(b, a)

RECURSIVE InsertSorted(_, _, _)
InsertSorted(s, x, ascending) ==
    IF s = <<>> THEN <<x>>
    ELSE IF SortBefore(x, Last(s), ascending)
         THEN Append(InsertSorted(Front(s), x, ascending), Last(s))
         ELSE Append(s, x)

\* slice::sort_by (stable)
RECURSIVE SortBy(_, _)
SortBy(s, ascending) ==
    IF s = <<>> THEN <<>>
    ELSE InsertSorted(SortBy(Front(s), ascending), Last(s), ascending)

\* a pop that removes the first element
VecPopFront(a) == [val |-> Head(a), rest |-> Tail(a)]

\* Vec::pop: the element removed and the rest
VecPop(a) == [val |-> Last(a), rest |-> Front(a)]

Swap(a, i, j) == [a EXCEPT ![i] = a[j], ![j] = a[i]]

\* the swaps (i, j) of Shuffle, one draw per element; indices from 0
RECURSIVE ShuffleSwaps(_, _, _, _)
ShuffleSwaps(i, len, rng, acc) ==
    IF i >= len THEN [swaps |-> acc, rng |-> rng]
    ELSE LET d == next_random(rng)
             j == AsUsize(FScale(d.val, len))
             m == IF j < len - 1 THEN j ELSE len - 1
         IN  ShuffleSwaps(i + 1, len, d.rng, Append(acc, <<i, m>>))

RECURSIVE ApplySwaps(_, _)
ApplySwaps(a, swaps) ==
    IF swaps = <<>> THEN a
    ELSE ApplySwaps(Swap(a, Head(swaps)[1] + 1, Head(swaps)[2] + 1), Tail(swaps))

(***************************************************************************)
(* The activations of execute.                                             *)
(***************************************************************************)
Top == ctl[Len(ctl)]

\* the statement the innermost `for statement in statements` is at
Cur == Head(Top.stmts)

\* the loop of the innermost activation moves to its next statement
Advance == [ctl EXCEPT ![Len(ctl)].stmts = Tail(@)]

\* the innermost activation has returned and the statement that called it
\* is complete
DropAndAdvance ==
    LET c == Front(ctl) IN [c EXCEPT ![Len(c)].stmts = Tail(@)]

At(op) == pc = "run" /\ signal.st = "run" /\ Top.stmts # <<>> /\ Cur.op = op

Returned(kind) ==
    pc = "run" /\ signal.st # "run" /\ Len(ctl) > 1 /\ Top.kind = kind

\* the statement completes
Done == ctl' = Advance /\ signal' = signal

\* return Err(m)
Fail(m) == ctl' = ctl /\ signal' = Err(m)

\* self.execute(body) is called
Enter(f) == ctl' = Append(ctl, f) /\ signal' = signal

\* the compound statement completes after its last execute call
Exit == ctl' = DropAndAdvance /\ signal' = Run

\* return Err(e) with the error the execute call returned
Propagate == ctl' = Front(ctl) /\ signal' = signal

Evaluated(r) == random_seed' = r.rng.seed /\ draws' = r.rng.draws

Eval(expr) == evaluate_expression(Self, expr, Rng)

Block(stmts) == [kind |-> "block", stmts |-> stmts]

(***************************************************************************)
(* Interpreter::execute, one action per match arm.                         *)
(***************************************************************************)
ExecIntentDeclaration ==
    /\ At("IntentDeclaration")
    /\ intents' = Put(intents, Cur.name, Cur.message)
    /\ Done
    /\ UNCHANGED <<pc, prog, outcome, calculations, variables, arrays, functions,
                   call_stack, random_seed, draws,
                   dicts, first, lexing, returned, written, console, parsing>>

ExecCalculate ==
    /\ At("Calculate")
    /\ LET r == Eval(Cur.expression)
       IN  /\ Evaluated(r)
           /\ IF r.ok
              THEN calculations' = Put(calculations, Cur.name, r.val) /\ Done
              ELSE calculations' = calculations /\ Fail(r.msg)
    /\ UNCHANGED <<pc, prog, outcome, intents, variables, arrays, functions,
                   call_stack,
                   dicts, first, lexing, returned, written, console, parsing>>

ExecStore ==
    /\ At("Store")
    /\ LET r == Eval(Cur.value)
       IN  /\ Evaluated(r)
           /\ IF r.ok
              THEN variables' = Put(variables, Cur.name, r.val) /\ Done
              ELSE variables' = variables /\ Fail(r.msg)
    /\ UNCHANGED <<pc, prog, outcome, intents, calculations, arrays, functions,
                   call_stack,
                   dicts, first, lexing, returned, written, console, parsing>>

\* the count is evaluated once; `left` is what remains of 0..times
ExecRepeat ==
    /\ At("Repeat")
    /\ LET r == Eval(Cur.count)
           times == AsUsize(r.val)
       IN  /\ Evaluated(r)
           /\ IF ~r.ok THEN Fail(r.msg)
              ELSE IF times = 0 THEN Done
              ELSE Enter([kind |-> "repeat", stmts |-> Cur.body, body |-> Cur.body,
                          left |-> times - 1, times |-> times, entered |-> 1])
    /\ UNCHANGED <<pc, prog, outcome, intents, calculations, variables, arrays,
                   functions, call_stack,
                   dicts, first, lexing, returned, written, console, parsing>>

RepeatReturn ==
    /\ Returned("repeat")
    /\ LET m == RepeatMatch(signal)
       IN  IF m = "break" THEN Exit
           ELSE IF m = "return_err" THEN Propagate
           ELSE IF Top.left = 0 THEN Exit
           ELSE /\ ctl' = [ctl EXCEPT ![Len(ctl)] =
                             [@ EXCEPT !.stmts = Top.body, !.left = @ - 1,
                                       !.entered = @ + 1]]
                /\ signal' = Run
    /\ UNCHANGED <<pc, prog, outcome, intents, calculations, variables, arrays,
                   functions, call_stack, random_seed, draws,
                   dicts, first, lexing, returned, written, console, parsing>>

ExecIf ==
    /\ At("If")
    /\ LET r == Eval(Cur.condition)
       IN  /\ Evaluated(r)
           /\ IF ~r.ok THEN Fail(r.msg)
              ELSE IF r.val # N(0) THEN Enter(Block(Cur.then_body))
              ELSE IF Cur.else_body # <<>> THEN Enter(Block(Cur.else_body[1]))
              ELSE Done
    /\ UNCHANGED <<pc, prog, outcome, intents, calculations, variables, arrays,
                   functions, call_stack,
                   dicts, first, lexing, returned, written, console, parsing>>

\* self.execute(..)? of If and of the catch body
BlockReturn ==
    /\ Returned("block")
    /\ IF signal.st = "ok" THEN Exit ELSE Propagate
    /\ UNCHANGED <<pc, prog, outcome, intents, calculations, variables, arrays,
                   functions, call_stack, random_seed, draws,
                   dicts, first, lexing, returned, written, console, parsing>>

ExecWhile ==
    /\ At("While")
    /\ LET r == Eval(Cur.condition)
       IN  /\ Evaluated(r)
           /\ IF ~r.ok THEN Fail(r.msg)
              ELSE IF r.val # N(0)
              THEN Enter([kind |-> "while", stmts |-> Cur.body, body |-> Cur.body,
                          condition |-> Cur.condition, entered |-> 1])
              ELSE Done
    /\ UNCHANGED <<pc, prog, outcome, intents, calculations, variables, arrays,
                   functions, call_stack,
                   dicts, first, lexing, returned, written, console, parsing>>

WhileReturn ==
    /\ Returned("while")
    /\ LET m == WhileMatch(signal)
           r == Eval(Top.condition)
       IN  IF m = "break" THEN Exit /\ UNCHANGED <<random_seed, draws>>
           ELSE IF m = "return_err" THEN Propagate /\ UNCHANGED <<random_seed, draws>>
           ELSE /\ Evaluated(r)
                /\ IF ~r.ok THEN ctl' = Front(ctl) /\ signal' = Err(r.msg)
                   ELSE IF r.val # N(0)
                   THEN /\ ctl' = [ctl EXCEPT ![Len(ctl)] =
                                     [@ EXCEPT !.stmts = Top.body, !.entered = @ + 1]]
                        /\ signal' = Run
                   ELSE Exit
    /\ UNCHANGED <<pc, prog, outcome, intents, calculations, variables, arrays,
                   functions, call_stack,
                   dicts, first, lexing, returned, written, console, parsing>>

ExecIncrement ==
    /\ At("Increment")
    /\ variables' = Put(variables, Cur.variable,
                        IF Has(variables, Cur.variable)
                        THEN FAdd(variables[Cur.variable], N(1)) ELSE N(1))
    /\ Done
    /\ UNCHANGED <<pc, prog, outcome, intents, calculations, arrays, functions,
                   call_stack, random_seed, draws,
                   dicts, first, lexing, returned, written, console, parsing>>

ExecDecrement ==
    /\ At("Decrement")
    /\ variables' = Put(variables, Cur.variable,
                        IF Has(variables, Cur.variable)
                        THEN FSub(variables[Cur.variable], N(1)) ELSE N(0 - 1))
    /\ Done
    /\ UNCHANGED <<pc, prog, outcome, intents, calculations, arrays, functions,
                   call_stack, random_seed, draws,
                   dicts, first, lexing, returned, written, console, parsing>>

\* a FOR with the ascending test whatever the sign of the step
ForTestIgnoresSign(current, end_val, step_val) ==
    step_val # N(0) /\ FLe(current, end_val)

\* whether the while test of the For branch chosen by the step's sign holds
ForTest(current, end_val, step_val) ==
    IF FLt(N(0), step_val) THEN FLe(current, end_val)
    ELSE IF FLt(step_val, N(0)) THEN FLe(end_val, current)
    ELSE FALSE

ExecFor ==
    /\ At("For")
    /\ LET a == Eval(Cur.start)
           b == evaluate_expression(Self, Cur.end, a.rng)
           c == IF Cur.step # <<>> THEN evaluate_expression(Self, Cur.step[1], b.rng)
                ELSE EOk(N(1), b.rng, FALSE)
       IN  IF ~a.ok THEN Evaluated(a) /\ Fail(a.msg) /\ variables' = variables
           ELSE IF ~b.ok THEN Evaluated(b) /\ Fail(b.msg) /\ variables' = variables
           ELSE IF ~c.ok THEN Evaluated(c) /\ Fail(c.msg) /\ variables' = variables
           ELSE /\ Evaluated(c)
                /\ IF ForTest(a.val, b.val, c.val)
                   THEN /\ variables' = Put(variables, Cur.variable, a.val)
                        /\ Enter([kind |-> "for", stmts |-> Cur.body,
                                  body |-> Cur.body, variable |-> Cur.variable,
                                  current |-> a.val, end_val |-> b.val,
                                  step_val |-> c.val, entered |-> 1])
                   ELSE variables' = variables /\ Done
    /\ UNCHANGED <<pc, prog, outcome, intents, calculations, arrays, functions,
                   call_stack,
                   dicts, first, lexing, returned, written, console, parsing>>

ForReturn ==
    /\ Returned("for")
    /\ LET m == ForMatch(signal)
           next == FAdd(Top.current, Top.step_val)
       IN  IF m = "break" THEN Exit /\ variables' = variables
           ELSE IF m = "return_err" THEN Propagate /\ variables' = variables
           ELSE IF ForTest(next, Top.end_val, Top.step_val)
           THEN /\ variables' = Put(variables, Top.variable, next)
                /\ ctl' = [ctl EXCEPT ![Len(ctl)] =
                             [@ EXCEPT !.stmts = Top.body, !.current = next]]
                /\ signal' = Run
           ELSE Exit /\ variables' = variables
    /\ UNCHANGED <<pc, prog, outcome, intents, calculations, arrays, functions,
                   call_stack, random_seed, draws,
                   dicts, first, lexing, returned, written, console, parsing>>

ExecAssert ==
    /\ At("Assert")
    /\ LET r == Eval(Cur.condition)
       IN  /\ Evaluated(r)
           /\ IF ~r.ok THEN Fail(r.msg)
              ELSE IF r.val = N(0)
              THEN IF Cur.message # <<>>
                   THEN Fail(<<"Assertion failed: ", Cur.message[1]>>)
                   ELSE Fail(<<"Assertion failed">>)
              ELSE Done
    /\ UNCHANGED <<pc, prog, outcome, intents, calculations, variables, arrays,
                   functions, call_stack,
                   dicts, first, lexing, returned, written, console, parsing>>

ExecTryCatch ==
    /\ At("TryCatch")
    /\ Enter([kind |-> "try", stmts |-> Cur.try_body, catch_body |-> Cur.catch_body])
    /\ UNCHANGED <<pc, prog, outcome, intents, calculations, variables, arrays,
                   functions, call_stack, random_seed, draws,
                   dicts, first, lexing, returned, written, console, parsing>>

\* on Err the catch body is executed in place of the try body
TryReturn ==
    /\ Returned("try")
    /\ IF TryMatch(signal) = "catch"
       THEN /\ ctl' = [ctl EXCEPT ![Len(ctl)] = Block(Top.catch_body)]
            /\ signal' = Run
       ELSE Exit
    /\ UNCHANGED <<pc, prog, outcome, intents, calculations, variables, arrays,
                   functions, call_stack, random_seed, draws,
                   dicts, first, lexing, returned, written, console, parsing>>

ExecBreak ==
    /\ At("Break")
    /\ Fail(BreakMsg)
    /\ UNCHANGED <<pc, prog, outcome, intents, calculations, variables, arrays,
                   functions, call_stack, random_seed, draws,
                   dicts, first, lexing, returned, written, console, parsing>>

ExecContinue ==
    /\ At("Continue")
    /\ Fail(ContinueMsg)
    /\ UNCHANGED <<pc, prog, outcome, intents, calculations, variables, arrays,
                   functions, call_stack, random_seed, draws,
                   dicts, first, lexing, returned, written, console, parsing>>

ExecArrayCreate ==
    /\ At("ArrayCreate")
    /\ arrays' = Put(arrays, Cur.name, <<>>)
    /\ Done
    /\ UNCHANGED <<pc, prog, outcome, intents, calculations, variables, functions,
                   call_stack, random_seed, draws,
                   dicts, first, lexing, returned, written, console, parsing>>

ExecArrayPush ==
    /\ At("ArrayPush")
    /\ LET r == Eval(Cur.value)
       IN  /\ Evaluated(r)
           /\ IF ~r.ok THEN arrays' = arrays /\ Fail(r.msg)
              ELSE IF Has(arrays, Cur.array_name)
              THEN /\ arrays' = Put(arrays, Cur.array_name,
                                    Append(arrays[Cur.array_name], r.val))
                   /\ Done
              ELSE /\ arrays' = arrays
                   /\ Fail(<<"Array '", Cur.array_name, "' not found">>)
    /\ UNCHANGED <<pc, prog, outcome, intents, calculations, variables, functions,
                   call_stack,
                   dicts, first, lexing, returned, written, console, parsing>>

ExecArrayPop ==
    /\ At("ArrayPop")
    /\ IF Has(arrays, Cur.array_name)
       THEN IF arrays[Cur.array_name] # <<>>
            THEN LET popped == VecPop(arrays[Cur.array_name])
                 IN  /\ arrays' = Put(arrays, Cur.array_name, popped.rest)
                     /\ variables' = Put(variables, Cur.result_name, popped.val)
                     /\ Done
            ELSE /\ UNCHANGED <<arrays, variables>>
                 /\ Fail(<<"Array '", Cur.array_name, "' is empty">>)
       ELSE /\ UNCHANGED <<arrays, variables>>
            /\ Fail(<<"Array '", Cur.array_name, "' not found">>)
    /\ UNCHANGED <<pc, prog, outcome, intents, calculations, functions, call_stack,
                   random_seed, draws,
                   dicts, first, lexing, returned, written, console, parsing>>

ExecArrayGet ==
    /\ At("ArrayGet")
    /\ LET r == Eval(Cur.index)
           idx == AsUsize(r.val)
       IN  /\ Evaluated(r)
           /\ IF ~r.ok THEN variables' = variables /\ Fail(r.msg)
              ELSE IF Has(arrays, Cur.array_name)
              THEN IF idx < Len(arrays[Cur.array_name])
                   THEN /\ variables' = Put(variables, Cur.result_name,
                                            arrays[Cur.array_name][idx + 1])
                        /\ Done
                   ELSE /\ variables' = variables
                        /\ Fail(<<"Array index ">> \o Digits(idx)
                                \o <<" out of bounds for array '", Cur.array_name, "'">>)
              ELSE /\ variables' = variables
                   /\ Fail(<<"Array '", Cur.array_name, "' not found">>)
    /\ UNCHANGED <<pc, prog, outcome, intents, calculations, arrays, functions,
                   call_stack,
                   dicts, first, lexing, returned, written, console, parsing>>

ExecArraySort ==
    /\ At("ArraySort")
    /\ IF Has(arrays, Cur.array_name)
       THEN /\ arrays' = Put(arrays, Cur.array_name,
                             SortBy(arrays[Cur.array_name], Cur.ascending))
            /\ Done
       ELSE arrays' = arrays /\ Fail(<<"Array '", Cur.array_name, "' not found">>)
    /\ UNCHANGED <<pc, prog, outcome, intents, calculations, variables, functions,
                   call_stack, random_seed, draws,
                   dicts, first, lexing, returned, written, console, parsing>>

ExecShuffle ==
    /\ At("Shuffle")
    /\ IF Has(arrays, Cur.array_name)
       THEN LET sw == ShuffleSwaps(0, Len(arrays[Cur.array_name]), Rng, <<>>)
            IN  /\ arrays' = Put(arrays, Cur.array_name,
                                 ApplySwaps(arrays[Cur.array_name], sw.swaps))
                /\ random_seed' = sw.rng.seed
                /\ draws' = sw.rng.draws
                /\ Done
       ELSE /\ UNCHANGED <<arrays, random_seed, draws>>
            /\ Fail(<<"Array '", Cur.array_name, "' not found">>)
    /\ UNCHANGED <<pc, prog, outcome, intents, calculations, variables, functions,
                   call_stack,
                   dicts, first, lexing, returned, written, console, parsing>>

ExecFunctionDefinition ==
    /\ At("FunctionDefinition")
    /\ functions' = Put(functions, Cur.name,
                        [parameters |-> Cur.parameters, body |-> Cur.body])
    /\ Done
    /\ UNCHANGED <<pc, prog, outcome, intents, calculations, variables, arrays,
                   call_stack, random_seed, draws,
                   dicts, first, lexing, returned, written, console, parsing>>

\* up to the call of self.execute(func_body)
ExecFunctionCall ==
    /\ At("FunctionCall")
    /\ IF Has(functions, Cur.function_name)
       THEN LET f == functions[Cur.function_name]
                a == EvalArgs(Self, Cur.arguments, Rng, <<>>)
            IN  /\ random_seed' = a.rng.seed
                /\ draws' = a.rng.draws
                /\ IF ~a.ok THEN call_stack' = call_stack /\ Fail(a.msg)
                   ELSE IF ~ArityFits(a.vals, f.parameters)
                   THEN /\ call_stack' = call_stack
                        /\ Fail(<<"Function '", Cur.function_name, "' expects ">>
                                \o Digits(Len(f.parameters))
                                \o <<" parameters, got ">> \o Digits(Len(a.vals)))
                   ELSE /\ call_stack' = Append(call_stack,
                                                BindParams(f.parameters, a.vals, EmptyMap))
                        /\ Enter([kind |-> "call", stmts |-> f.body,
                                  result_name |-> Cur.result_name,
                                  depth |-> Len(call_stack)])
       ELSE /\ UNCHANGED <<call_stack, random_seed, draws>>
            /\ Fail(<<"Function '", Cur.function_name, "' not found">>)
    /\ UNCHANGED <<pc, prog, outcome, intents, calculations, variables, arrays,
                   functions,
                   dicts, first, lexing, returned, written, console, parsing>>

\* from the match on the body's result to the end of the arm
CallReturn ==
    /\ Returned("call")
    /\ LET m == CallMatch(signal)
       IN  /\ call_stack' = call_stack_pop(call_stack, m.tag)
           /\ IF m.tag = "return_err" THEN Propagate /\ variables' = variables
              ELSE /\ Exit
                   /\ variables' = IF Top.result_name # <<>>
                                   THEN Put(variables, Top.result_name[1], m.val)
                                   ELSE variables
    /\ UNCHANGED <<pc, prog, outcome, intents, calculations, arrays, functions,
                   random_seed, draws,
                   dicts, first, lexing, returned, written, console, parsing>>

ExecReturn ==
    /\ At("Return")
    /\ LET r == IF Cur.value # <<>> THEN Eval(Cur.value[1]) ELSE EOk(N(0), Rng, FALSE)
       IN  /\ Evaluated(r)
           /\ IF r.ok THEN Fail(ReturnMsg(r.val)) ELSE Fail(r.msg)
    /\ UNCHANGED <<pc, prog, outcome, intents, calculations, variables, arrays,
                   functions, call_stack,
                   dicts, first, lexing, returned, written, console, parsing>>

(***************************************************************************)
(* The per-element statements: FILTER, MAP, FIND, COUNT and FOLD bind      *)
(* item (and index, acc) in Variables around each evaluation of their      *)
(* expression.  A loop returns the Variables it leaves, the generator      *)
(* state, what it collected, and the error of the evaluation that failed.  *)
(***************************************************************************)
Remove(m, k) == [x \in (DOMAIN m) \ {k} |-> m[x]]

\* self.variables.get(name).copied()
Saved(vs, name) == IF Has(vs, name) THEN <<vs[name]>> ELSE <<>>

\* a restore that leaves the temporary binding in place
RestoreNothing(vs, name, old) == vs

\* if let Some(old_val) = old { insert } else { remove }
Restore(vs, name, old) ==
    IF old # <<>> THEN Put(vs, name, old[1]) ELSE Remove(vs, name)

LoopOk(vs, rng, out) == [ok |-> TRUE, vars |-> vs, rng |-> rng, out |-> out, msg |-> <<>>]

LoopErr(vs, rng, m) == [ok |-> FALSE, vars |-> vs, rng |-> rng, out |-> <<>>, msg |-> m]

\* for (index, &value) in source_array.iter().enumerate(): the elements
\* from position i + 1 on; keep is TRUE for FILTER, FALSE for MAP
RECURSIVE ElementLoop(_, _, _, _, _, _, _)
ElementLoop(st, source_array, i, expression, keep, rng, out) ==
    IF i >= Len(source_array) THEN LoopOk(st.variables, rng, out)
    ELSE LET value == source_array[i + 1]
             old_item_value == Saved(st.variables, "item")
             old_index_value == Saved(st.variables, "index")
             bound == Put(Put(st.variables, "item", value), "index", N(i))
             r == evaluate_expression([st EXCEPT !.variables = bound], expression, rng)
             restored == Restore(Restore(bound, "item", old_item_value),
                                 "index", old_index_value)
         IN  IF ~r.ok THEN LoopErr(bound, r.rng, r.msg)
             ELSE ElementLoop([st EXCEPT !.variables = restored], source_array, i + 1,
                              expression, keep, r.rng,
                              IF keep /\ r.val = N(0) THEN out
                              ELSE Append(out, IF keep THEN value ELSE r.val))

\* for &value in &array of FIND: stops at the first element that matches
RECURSIVE FindLoop(_, _, _, _, _)
FindLoop(st, array, condition, result_name, rng) ==
    IF array = <<>> THEN LoopOk(st.variables, rng, <<>>)
    ELSE LET bound == Put(st.variables, "item", Head(array))
             r == evaluate_expression([st EXCEPT !.variables = bound], condition, rng)
         IN  IF ~r.ok THEN LoopErr(bound, r.rng, r.msg)
             ELSE IF r.val # N(0)
             THEN LoopOk(Put(bound, result_name, Head(array)), r.rng, <<>>)
             ELSE FindLoop([st EXCEPT !.variables = bound], Tail(array), condition,
                           result_name, r.rng)

\* for &value in &array of COUNT
RECURSIVE CountLoop(_, _, _, _, _)
CountLoop(st, array, condition, rng, count) ==
    IF array = <<>> THEN LoopOk(st.variables, rng, count)
    ELSE LET bound == Put(st.variables, "item", Head(array))
             r == evaluate_expression([st EXCEPT !.variables = bound], condition, rng)
         IN  IF ~r.ok THEN LoopErr(bound, r.rng, r.msg)
             ELSE CountLoop([st EXCEPT !.variables = bound], Tail(array), condition,
                            r.rng, IF r.val # N(0) THEN count + 1 ELSE count)

\* for &value in &array of FOLD
RECURSIVE FoldLoop(_, _, _, _, _)
FoldLoop(st, array, operation, rng, accumulator) ==
    IF array = <<>> THEN LoopOk(st.variables, rng, accumulator)
    ELSE LET bound == Put(Put(st.variables, "acc", accumulator), "item", Head(array))
             r == evaluate_expression([st EXCEPT !.variables = bound], operation, rng)
         IN  IF ~r.ok THEN LoopErr(bound, r.rng, r.msg)
             ELSE FoldLoop([st EXCEPT !.variables = bound], Tail(array), operation,
                           r.rng, r.val)

ExecArrayFilter ==
    /\ At("ArrayFilter")
    /\ IF Has(arrays, Cur.array_name)
       THEN LET r == ElementLoop(Self, arrays[Cur.array_name], 0, Cur.condition, TRUE,
                                 Rng, <<>>)
            IN  /\ Evaluated(r)
                /\ variables' = r.vars
                /\ IF r.ok
                   THEN arrays' = Put(arrays, Cur.result_array, r.out) /\ Done
                   ELSE arrays' = arrays /\ Fail(r.msg)
       ELSE /\ UNCHANGED <<arrays, variables, random_seed, draws>>
            /\ Fail(<<"Array '", Cur.array_name, "' not found">>)
    /\ UNCHANGED <<pc, prog, outcome, intents, calculations, functions, call_stack,
                   dicts, first, lexing, returned, written, console, parsing>>

ExecArrayMap ==
    /\ At("ArrayMap")
    /\ IF Has(arrays, Cur.array_name)
       THEN LET r == ElementLoop(Self, arrays[Cur.array_name], 0, Cur.expression, FALSE,
                                 Rng, <<>>)
            IN  /\ Evaluated(r)
                /\ variables' = r.vars
                /\ IF r.ok
                   THEN arrays' = Put(arrays, Cur.result_array, r.out) /\ Done
                   ELSE arrays' = arrays /\ Fail(r.msg)
       ELSE /\ UNCHANGED <<arrays, variables, random_seed, draws>>
            /\ Fail(<<"Array '", Cur.array_name, "' not found">>)
    /\ UNCHANGED <<pc, prog, outcome, intents, calculations, functions, call_stack,
                   dicts, first, lexing, returned, written, console, parsing>>

ExecFind ==
    /\ At("Find")
    /\ IF Has(arrays, Cur.array_name)
       THEN LET r == FindLoop(Self, arrays[Cur.array_name], Cur.condition,
                              Cur.result_name, Rng)
            IN  /\ Evaluated(r)
                /\ IF r.ok THEN variables' = Remove(r.vars, "item") /\ Done
                   ELSE variables' = r.vars /\ Fail(r.msg)
       ELSE /\ UNCHANGED <<variables, random_seed, draws>>
            /\ Fail(<<"Array '", Cur.array_name, "' not found">>)
    /\ UNCHANGED <<pc, prog, outcome, intents, calculations, arrays, functions,
                   call_stack, dicts, first, lexing, returned, written, console,
                   parsing>>

ExecCount ==
    /\ At("Count")
    /\ IF Has(arrays, Cur.array_name)
       THEN LET r == CountLoop(Self, arrays[Cur.array_name], Cur.condition, Rng, 0)
            IN  /\ Evaluated(r)
                /\ IF r.ok
                   THEN /\ variables' = Put(Remove(r.vars, "item"), Cur.result_name,
                                            N(r.out))
                        /\ Done
                   ELSE variables' = r.vars /\ Fail(r.msg)
       ELSE /\ UNCHANGED <<variables, random_seed, draws>>
            /\ Fail(<<"Array '", Cur.array_name, "' not found">>)
    /\ UNCHANGED <<pc, prog, outcome, intents, calculations, arrays, functions,
                   call_stack, dicts, first, lexing, returned, written, console,
                   parsing>>

ExecFold ==
    /\ At("Fold")
    /\ IF Has(arrays, Cur.array_name)
       THEN LET a == Eval(Cur.initial)
                r == IF a.ok
                     THEN FoldLoop(Self, arrays[Cur.array_name], Cur.operation, a.rng,
                                   a.val)
                     ELSE LoopErr(variables, a.rng, a.msg)
            IN  /\ Evaluated(r)
                /\ IF r.ok
                   THEN /\ variables' = Remove(Remove(Put(r.vars, Cur.result_name, r.out),
                                                      "acc"), "item")
                        /\ Done
                   ELSE variables' = r.vars /\ Fail(r.msg)
       ELSE /\ UNCHANGED <<variables, random_seed, draws>>
            /\ Fail(<<"Array '", Cur.array_name, "' not found">>)
    /\ UNCHANGED <<pc, prog, outcome, intents, calculations, arrays, functions,
                   call_stack, dicts, first, lexing, returned, written, console,
                   parsing>>

(***************************************************************************)
(* Strings, dictionaries and EXPORT.                                       *)
(***************************************************************************)
\* str::to_uppercase on the strings the programs use
to_uppercase(s) ==
    CASE s \in {"hi", "HI"} -> "HI"
      [] s \in {"ghost", "GHOST"} -> "GHOST"
      [] s \in {"s", "S"} -> "S"

\* str::to_lowercase on the strings the programs use
to_lowercase(s) ==
    CASE s \in {"hi", "HI"} -> "hi"
      [] s \in {"ghost", "GHOST"} -> "ghost"
      [] s \in {"s", "S"} -> "s"

ExecStringTransform ==
    /\ At("StringTransform")
    /\ LET source_string == IF Has(intents, Cur.source) THEN intents[Cur.source]
                            ELSE Cur.source
       IN  CASE Cur.operation = "UPPERCASE" ->
                  intents' = Put(intents, Cur.name, to_uppercase(source_string)) /\ Done
             [] Cur.operation = "LOWERCASE" ->
                  intents' = Put(intents, Cur.name, to_lowercase(source_string)) /\ Done
             [] OTHER ->
                  /\ intents' = intents
                  /\ Fail(<<"Unknown string operation: ", Cur.operation>>)
    /\ UNCHANGED <<pc, prog, outcome, calculations, variables, arrays, functions,
                   call_stack, random_seed, draws, dicts, first, lexing, returned,
                   written, console, parsing>>

\* the characters of the names and texts the programs export
Chars(s) ==
    CASE s = "s" -> <<"s">>
      [] s = "x" -> <<"x">>
      [] s = "q" -> <<"q">>
      [] s = "a" -> <<"a">>
      [] s = "hi" -> <<"h", "i">>
      [] s = "ghost" -> <<"g", "h", "o", "s", "t">>
      [] s = "INTENT " -> <<"I", "N", "T", "E", "N", "T", " ">>
      [] s = "STORE " -> <<"S", "T", "O", "R", "E", " ">>
      [] s = "ARRAY " -> <<"A", "R", "R", "A", "Y", " ">>
      [] s = "PUSH " -> <<"P", "U", "S", "H", " ">>
      [] s = "# Exported from Anubhav\n" ->
           <<"#", " ", "E", "x", "p", "o", "r", "t", "e", "d", " ", "f", "r", "o",
             "m", " ", "A", "n", "u", "b", "h", "a", "v", "\n">>

\* for value in array_value: PUSH {item} {value}\n
RECURSIVE ExportPushes(_, _)
ExportPushes(item, array_value) ==
    IF array_value = <<>> THEN <<>>
    ELSE Chars("PUSH ") \o Chars(item) \o <<" ">> \o FormatF64(Head(array_value))
         \o <<"\n">> \o ExportPushes(item, Tail(array_value))

\* for item in &items: the text pushed onto export_content
RECURSIVE ExportContent(_, _)
ExportContent(st, items) ==
    IF items = <<>> THEN <<>>
    ELSE LET item == Head(items)
         IN  (IF Has(st.intents, item)
              THEN Chars("INTENT ") \o Chars(item) \o <<" ", "\"">>
                   \o Chars(st.intents[item]) \o <<"\"", "\n">>
              ELSE IF Has(st.calculations, item)
              THEN Chars("STORE ") \o Chars(item) \o <<" ">>
                   \o FormatF64(st.calculations[item]) \o <<"\n">>
              ELSE IF Has(st.variables, item)
              THEN Chars("STORE ") \o Chars(item) \o <<" ">>
                   \o FormatF64(st.variables[item]) \o <<"\n">>
              ELSE IF Has(st.arrays, item)
              THEN Chars("ARRAY ") \o Chars(item) \o <<"\n">>
                   \o ExportPushes(item, st.arrays[item])
              ELSE <<>>)
             \o ExportContent(st, Tail(items))

\* the paths fs::write cannot create: their directory does not exist
Unwritable == {"nowhere/out"}

ExecExport ==
    /\ At("Export")
    /\ IF Cur.filename \in Unwritable
       THEN /\ written' = written
            /\ Fail(<<"Failed to write to file '", Cur.filename, "': ",
                      "No such file or directory (os error 2)">>)
       ELSE /\ written' = Put(written, Cur.filename,
                              Chars("# Exported from Anubhav\n")
                              \o ExportContent(Self, Cur.items))
            /\ Done
    /\ UNCHANGED <<pc, prog, outcome, intents, calculations, variables, arrays,
                   functions, call_stack, random_seed, draws, dicts, first, lexing,
                   returned, console, parsing>>

ExecDictCreate ==
    /\ At("DictCreate")
    /\ dicts' = Put(dicts, Cur.name, EmptyMap)
    /\ Done
    /\ UNCHANGED <<pc, prog, outcome, intents, calculations, variables, arrays,
                   functions, call_stack, random_seed, draws, first, lexing, returned,
                   written, console, parsing>>

ExecDictPut ==
    /\ At("DictPut")
    /\ LET r == Eval(Cur.value)
       IN  /\ Evaluated(r)
           /\ IF ~r.ok THEN dicts' = dicts /\ Fail(r.msg)
              ELSE IF Has(dicts, Cur.dict_name)
              THEN /\ dicts' = Put(dicts, Cur.dict_name,
                                   Put(dicts[Cur.dict_name], Cur.key, r.val))
                   /\ Done
              ELSE /\ dicts' = dicts
                   /\ Fail(<<"Dictionary '", Cur.dict_name, "' not found">>)
    /\ UNCHANGED <<pc, prog, outcome, intents, calculations, variables, arrays,
                   functions, call_stack, first, lexing, returned, written, console,
                   parsing>>

\* the orders in which HashMap::values can visit the keys: the order
\* depends on the map's RandomState, which differs from map to map
IterationOrders(dict) ==
    {order \in [1..Cardinality(DOMAIN dict) -> DOMAIN dict] :
        \A i, j \in DOMAIN order : i # j => order[i] # order[j]}

ExecDictValues ==
    /\ At("DictValues")
    /\ IF Has(dicts, Cur.dict_name)
       THEN /\ \E order \in IterationOrders(dicts[Cur.dict_name]) :
                 arrays' = Put(arrays, Cur.result_array,
                               [i \in DOMAIN order |-> dicts[Cur.dict_name][order[i]]])
            /\ Done
       ELSE arrays' = arrays /\ Fail(<<"Dictionary '", Cur.dict_name, "' not found">>)
    /\ UNCHANGED <<pc, prog, outcome, intents, calculations, variables, functions,
                   call_stack, random_seed, draws, dicts, first, lexing, returned,
                   written, console, parsing>>

ExecArraySet ==
    /\ At("ArraySet")
    /\ LET i == Eval(Cur.index)
           idx == AsUsize(i.val)
           v == evaluate_expression(Self, Cur.value, i.rng)
       IN  IF ~i.ok THEN Evaluated(i) /\ arrays' = arrays /\ Fail(i.msg)
           ELSE /\ Evaluated(v)
                /\ IF ~v.ok THEN arrays' = arrays /\ Fail(v.msg)
                   ELSE IF Has(arrays, Cur.array_name)
                   THEN IF idx < Len(arrays[Cur.array_name])
                        THEN /\ arrays' = Put(arrays, Cur.array_name,
                                              [arrays[Cur.array_name]
                                                 EXCEPT ![idx + 1] = v.val])
                             /\ Done
                        ELSE /\ arrays' = arrays
                             /\ Fail(<<"Array index ">> \o Digits(idx)
                                     \o <<" out of bounds for array '",
                                          Cur.array_name, "'">>)
                   ELSE /\ arrays' = arrays
                        /\ Fail(<<"Array '", Cur.array_name, "' not found">>)
    /\ UNCHANGED <<pc, prog, outcome, intents, calculations, variables, functions,
                   call_stack, dicts, first, lexing, returned, written, console,
                   parsing>>

ExecDictFetch ==
    /\ At("DictFetch")
    /\ IF Has(dicts, Cur.dict_name)
       THEN IF Has(dicts[Cur.dict_name], Cur.key)
            THEN /\ variables' = Put(variables, Cur.result_name,
                                     dicts[Cur.dict_name][Cur.key])
                 /\ Done
            ELSE /\ variables' = variables
                 /\ Fail(<<"Key '", Cur.key, "' not found in dictionary '",
                           Cur.dict_name, "'">>)
       ELSE /\ variables' = variables
            /\ Fail(<<"Dictionary '", Cur.dict_name, "' not found">>)
    /\ UNCHANGED <<pc, prog, outcome, intents, calculations, arrays, functions,
                   call_stack, random_seed, draws, dicts, first, lexing, returned,
                   written, console, parsing>>

\* the String of a sequence of characters
RECURSIVE Str(_)
Str(cs) == IF cs = <<>> THEN "" ELSE Head(cs) \o Str(Tail(cs))

starts_with(s, prefix) ==
    Len(s) >= Len(prefix) /\ SubSeq(s, 1, Len(prefix)) = prefix

ends_with(s, suffix) ==
    Len(s) >= Len(suffix) /\ SubSeq(s, Len(s) - Len(suffix) + 1, Len(s)) = suffix

\* str::trim
RECURSIVE trim_start(_)
trim_start(s) ==
    IF Len(s) > 0 /\ Head(s) \in {" ", "\n", "\t", "\r"} THEN trim_start(Tail(s))
    ELSE s

RECURSIVE trim_end(_)
trim_end(s) ==
    IF Len(s) > 0 /\ SubSeq(s, Len(s), Len(s)) \in {" ", "\n", "\t", "\r"}
    THEN trim_end(SubSeq(s, 1, Len(s) - 1))
    ELSE s

trim(s) == trim_end(trim_start(s))

\* a probe order other than the arms': Variables before Calculations
ResolveVariablesFirst(var_name) ==
    IF Has(intents, var_name) THEN intents[var_name]
    ELSE IF Has(variables, var_name) THEN Str(FormatF64(variables[var_name]))
    ELSE IF Has(calculations, var_name) THEN Str(FormatF64(calculations[var_name]))
    ELSE "<" \o var_name \o " not found>"

\* the if-let chain of the Combine and Print arms on the name of a placeholder
Resolve(var_name) ==
    IF Has(intents, var_name) THEN intents[var_name]
    ELSE IF Has(calculations, var_name) THEN Str(FormatF64(calculations[var_name]))
    ELSE IF Has(variables, var_name) THEN Str(FormatF64(variables[var_name]))
    ELSE "<" \o var_name \o " not found>"

\* what one part of COMBINE or one item of PRINT contributes
Render(part) ==
    IF starts_with(part, "${") /\ ends_with(part, "}")
    THEN Resolve(SubSeq(part, 3, Len(part) - 1))
    ELSE part

RECURSIVE Combined(_)
Combined(parts) ==
    IF parts = <<>> THEN "" ELSE Render(Head(parts)) \o Combined(Tail(parts))

ExecCombine ==
    /\ At("Combine")
    /\ intents' = Put(intents, Cur.name, Combined(Cur.parts))
    /\ Done
    /\ UNCHANGED <<pc, prog, outcome, calculations, variables, arrays, functions,
                   call_stack, random_seed, draws, dicts, first, lexing, returned,
                   written, console, parsing>>

\* output.push(' ') follows every item
RECURSIVE Output(_)
Output(items) ==
    IF items = <<>> THEN "" ELSE Render(Head(items)) \o " " \o Output(Tail(items))

ExecPrint ==
    /\ At("Print")
    /\ console' = Append(console, trim(Output(Cur.items)))
    /\ Done
    /\ UNCHANGED <<pc, prog, outcome, intents, calculations, variables, arrays,
                   functions, call_stack, random_seed, draws, dicts, first, lexing,
                   returned, written, parsing>>

\* the elements up to which the loop of RANGE is followed
MaxRange == MaxCount + 2

\* a loop test that runs downwards for a negative step, as FOR does
RangeTestBySign(current, end_val, step_val) ==
    IF FLt(N(0), step_val) THEN FLe(current, end_val)
    ELSE IF FLt(step_val, N(0)) THEN FLe(end_val, current)
    ELSE FALSE

\* while current <= end_val
RangeTest(current, end_val, step_val) == FLe(current, end_val)

\* the Range arm up to its loop: start, end and step are evaluated; the
\* statement in execution then stands for the loop and its locals
ExecRange ==
    /\ At("Range")
    /\ LET a == Eval(Cur.start)
           b == evaluate_expression(Self, Cur.end, a.rng)
           c == IF Cur.step # <<>> THEN evaluate_expression(Self, Cur.step[1], b.rng)
                ELSE EOk(N(1), b.rng, FALSE)
       IN  IF ~a.ok THEN Evaluated(a) /\ Fail(a.msg)
           ELSE IF ~b.ok THEN Evaluated(b) /\ Fail(b.msg)
           ELSE IF ~c.ok THEN Evaluated(c) /\ Fail(c.msg)
           ELSE /\ Evaluated(c)
                /\ signal' = signal
                /\ ctl' = [ctl EXCEPT ![Len(ctl)].stmts =
                             <<[op |-> "RangeLoop", current |-> a.val,
                                end_val |-> b.val, step_val |-> c.val,
                                range_array |-> <<>>,
                                result_array |-> Cur.result_array]>> \o Tail(@)]
    /\ UNCHANGED <<pc, prog, outcome, intents, calculations, variables, arrays,
                   functions, call_stack, dicts, first, lexing, returned, written,
                   console, parsing>>

\* one iteration: range_array.push(current); current += step_val
RangeIteration ==
    /\ At("RangeLoop")
    /\ RangeTest(Cur.current, Cur.end_val, Cur.step_val)
    /\ Len(Cur.range_array) < MaxRange
    /\ signal' = signal
    /\ ctl' = [ctl EXCEPT ![Len(ctl)].stmts =
                 <<[Cur EXCEPT !.range_array = Append(@, Cur.current),
                               !.current = FAdd(@, Cur.step_val)]>> \o Tail(@)]
    /\ UNCHANGED <<pc, prog, outcome, intents, calculations, variables, arrays,
                   functions, call_stack, random_seed, draws, dicts, first, lexing,
                   returned, written, console, parsing>>

\* the loop is left: self.arrays.insert(result_array, range_array)
RangeExit ==
    /\ At("RangeLoop")
    /\ ~RangeTest(Cur.current, Cur.end_val, Cur.step_val)
    /\ arrays' = Put(arrays, Cur.result_array, Cur.range_array)
    /\ Done
    /\ UNCHANGED <<pc, prog, outcome, intents, calculations, variables, functions,
                   call_stack, random_seed, draws, dicts, first, lexing, returned,
                   written, console, parsing>>

\* the end of the statement list: Ok(())
ExecuteReturnsOk ==
    /\ pc = "run" /\ signal.st = "run" /\ Top.stmts = <<>>
    /\ signal' = Ok
    /\ UNCHANGED <<pc, prog, ctl, outcome, intents, calculations, variables, arrays,
                   functions, call_stack, random_seed, draws,
                   dicts, first, lexing, returned, written, console, parsing>>

(***************************************************************************)
(* lang/lexer.rs.  A String is the sequence of its characters; the lexer   *)
(* is its input and position, and current_char is chars().nth(position).   *)
(***************************************************************************)
is_whitespace(c) == c \in {" ", "\n", "\t", "\r"}

is_numeric(c) == IsDigit(c)

is_alphabetic(c) ==
    c \in {"a", "b", "c", "d", "e", "f", "g", "h", "i", "j", "k", "l", "m", "n",
           "o", "p", "q", "r", "s", "t", "u", "v", "w", "x", "y", "z", "A", "B",
           "C", "D", "E", "F", "G", "H", "I", "J", "K", "L", "M", "N", "O", "P",
           "Q", "R", "S", "T", "U", "V", "W", "X", "Y", "Z"}

is_alphanumeric(c) == is_alphabetic(c) \/ is_numeric(c)

Lexer_new(input) == [input |-> input, position |-> 0]

\* Option<char>
current_char(lx) ==
    IF lx.position < Len(lx.input) THEN <<lx.input[lx.position + 1]>> ELSE <<>>

Lexer_advance(lx) == [lx EXCEPT !.position = @ + 1]

\* the inner loop of skip_whitespace: to the end of the comment line
RECURSIVE SkipComment(_)
SkipComment(lx) ==
    LET c == current_char(lx)
    IN  IF c = <<>> THEN lx
        ELSE IF c[1] = "\n" THEN Lexer_advance(lx)
        ELSE SkipComment(Lexer_advance(lx))

\* a lexer to which '#' is a character like any other
RECURSIVE SkipWhitespaceOnly(_)
SkipWhitespaceOnly(lx) ==
    LET c == current_char(lx)
    IN  IF c = <<>> THEN lx
        ELSE IF is_whitespace(c[1]) THEN SkipWhitespaceOnly(Lexer_advance(lx))
        ELSE lx

RECURSIVE skip_whitespace(_)
skip_whitespace(lx) ==
    LET c == current_char(lx)
    IN  IF c = <<>> THEN lx
        ELSE IF is_whitespace(c[1]) THEN skip_whitespace(Lexer_advance(lx))
        ELSE IF c[1] = "#" THEN skip_whitespace(SkipComment(lx))
        ELSE lx

RECURSIVE ReadStringLoop(_, _)
ReadStringLoop(lx, result) ==
    LET c == current_char(lx)
    IN  IF c = <<>> THEN [lx |-> lx, val |-> result]
        ELSE IF c[1] = "\"" THEN [lx |-> Lexer_advance(lx), val |-> result]
        ELSE ReadStringLoop(Lexer_advance(lx), Append(result, c[1]))

read_string(lx) == ReadStringLoop(Lexer_advance(lx), <<>>)

RECURSIVE ReadIdentifierLoop(_, _)
ReadIdentifierLoop(lx, result) ==
    LET c == current_char(lx)
    IN  IF c # <<>> /\ (is_alphanumeric(c[1]) \/ c[1] = "_")
        THEN ReadIdentifierLoop(Lexer_advance(lx), Append(result, c[1]))
        ELSE [lx |-> lx, val |-> result]

read_identifier(lx) == ReadIdentifierLoop(lx, <<>>)

RECURSIVE ReadNumberLoop(_, _)
ReadNumberLoop(lx, result) ==
    LET c == current_char(lx)
    IN  IF c # <<>> /\ (is_numeric(c[1]) \/ c[1] = ".")
        THEN ReadNumberLoop(Lexer_advance(lx), Append(result, c[1]))
        ELSE [lx |-> lx, val |-> result]

\* result.parse().unwrap_or(0.0)
read_number(lx) ==
    LET r == ReadNumberLoop(lx, <<>>)
        parsed == ParseF64(r.val)
    IN  [lx |-> r.lx, val |-> IF parsed.ok THEN parsed.val ELSE N(0)]

\* a Token: its variant, and the String or f64 it carries
Tok(t) == [t |-> t, s |-> <<>>, n |-> N(0)]

Identifier(name) == [t |-> "Identifier", s |-> name, n |-> N(0)]

StringLiteral(string_val) == [t |-> "StringLiteral", s |-> string_val, n |-> N(0)]

Number(num) == [t |-> "Number", s |-> <<>>, n |-> num]

\* the arms of `match identifier.as_str()` in next_token: the text and the
\* token of each keyword
Keywords ==
    <<<<<<"I", "N", "T", "E", "N", "T">>, "Intent">>,
      <<<<"M", "A", "N", "I", "F", "E", "S", "T">>, "Manifest">>,
      <<<<"C", "A", "L", "C", "U", "L", "A", "T", "E">>, "Calculate">>,
      <<<<"W", "I", "T", "H">>, "With">>,
      <<<<"S", "T", "O", "R", "E">>, "Store">>,
      <<<<"R", "E", "C", "A", "L", "L">>, "Recall">>,
      <<<<"C", "O", "M", "B", "I", "N", "E">>, "Combine">>,
      <<<<"R", "E", "P", "E", "A", "T">>, "Repeat">>,
      <<<<"T", "I", "M", "E", "S">>, "Times">>,
      <<<<"D", "O">>, "Do">>,
      <<<<"E", "N", "D">>, "End">>,
      <<<<"I", "F">>, "If">>,
      <<<<"T", "H", "E", "N">>, "Then">>,
      <<<<"E", "L", "S", "E">>, "Else">>,
      <<<<"A", "N", "D">>, "And">>,
      <<<<"O", "R">>, "Or">>,
      <<<<"N", "O", "T">>, "Not">>,
      <<<<"P", "R", "I", "N", "T">>, "Print">>,
      <<<<"W", "H", "I", "L", "E">>, "While">>,
      <<<<"I", "N", "C", "R", "E", "M", "E", "N", "T">>, "Increment">>,
      <<<<"D", "E", "C", "R", "E", "M", "E", "N", "T">>, "Decrement">>,
      <<<<"F", "O", "R">>, "For">>,
      <<<<"T", "O">>, "To">>,
      <<<<"S", "T", "E", "P">>, "Step">>,
      <<<<"M", "I", "N">>, "Min">>,
      <<<<"M", "A", "X">>, "Max">>,
      <<<<"A", "S", "S", "E", "R", "T">>, "Assert">>,
      <<<<"T", "R", "Y">>, "Try">>,
      <<<<"C", "A", "T", "C", "H">>, "Catch">>,
      <<<<"F", "L", "O", "O", "R">>, "Floor">>,
      <<<<"C", "E", "I", "L">>, "Ceil">>,
      <<<<"R", "O", "U", "N", "D">>, "Round">>,
      <<<<"R", "A", "N", "D", "O", "M">>, "Random">>,
      <<<<"L", "E", "N", "G", "T", "H">>, "Length">>,
      <<<<"S", "U", "B", "S", "T", "R", "I", "N", "G">>, "Substring">>,
      <<<<"U", "P", "P", "E", "R", "C", "A", "S", "E">>, "Uppercase">>,
      <<<<"L", "O", "W", "E", "R", "C", "A", "S", "E">>, "Lowercase">>,
      <<<<"C", "O", "N", "T", "A", "I", "N", "S">>, "Contains">>,
      <<<<"S", "W", "I", "T", "C", "H">>, "Switch">>,
      <<<<"C", "A", "S", "E">>, "Case">>,
      <<<<"D", "E", "F", "A", "U", "L", "T">>, "Default">>,
      <<<<"A", "R", "R", "A", "Y">>, "Array">>,
      <<<<"P", "U", "S", "H">>, "Push">>,
      <<<<"P", "O", "P">>, "Pop">>,
      <<<<"S", "I", "Z", "E">>, "Size">>,
      <<<<"G", "E", "T">>, "Get">>,
      <<<<"S", "E", "T">>, "Set">>,
      <<<<"I", "M", "P", "O", "R", "T">>, "Import">>,
      <<<<"E", "X", "P", "O", "R", "T">>, "Export">>,
      <<<<"B", "R", "E", "A", "K">>, "Break">>,
      <<<<"C", "O", "N", "T", "I", "N", "U", "E">>, "Continue">>,
      <<<<"F", "U", "N", "C", "T", "I", "O", "N">>, "Function">>,
      <<<<"C", "A", "L", "L">>, "Call">>,
      <<<<"R", "E", "T", "U", "R", "N">>, "Return">>,
      <<<<"S", "O", "R", "T">>, "Sort">>,
      <<<<"F", "I", "L", "T", "E", "R">>, "Filter">>,
      <<<<"R", "E", "V", "E", "R", "S", "E">>, "Reverse">>,
      <<<<"M", "A", "P">>, "Map">>,
      <<<<"R", "E", "D", "U", "C", "E">>, "Reduce">>,
      <<<<"S", "U", "M">>, "Sum">>,
      <<<<"J", "O", "I", "N">>, "Join">>,
      <<<<"D", "I", "C", "T">>, "Dict">>,
      <<<<"P", "U", "T">>, "Put">>,
      <<<<"F", "E", "T", "C", "H">>, "Fetch">>,
      <<<<"K", "E", "Y", "S">>, "Keys">>,
      <<<<"V", "A", "L", "U", "E", "S">>, "Values">>,
      <<<<"R", "E", "A", "D", "_", "F", "I", "L", "E">>, "ReadFile">>,
      <<<<"W", "R", "I", "T", "E", "_", "F", "I", "L", "E">>, "WriteFile">>,
      <<<<"A", "P", "P", "E", "N", "D", "_", "F", "I", "L", "E">>, "AppendFile">>,
      <<<<"D", "E", "L", "E", "T", "E">>, "Delete">>,
      <<<<"E", "X", "I", "S", "T", "S">>, "Exists">>,
      <<<<"S", "L", "E", "E", "P">>, "Sleep">>,
      <<<<"I", "N", "P", "U", "T">>, "Input">>,
      <<<<"T", "Y", "P", "E">>, "Type">>,
      <<<<"P", "A", "R", "S", "E">>, "Parse">>,
      <<<<"T", "O", "_", "S", "T", "R", "I", "N", "G">>, "ToString">>,
      <<<<"L", "A", "M", "B", "D", "A">>, "Lambda">>,
      <<<<"P", "I", "P", "E">>, "Pipe">>,
      <<<<"R", "A", "N", "G", "E">>, "RangeOp">>,
      <<<<"F", "O", "L", "D">>, "Fold">>,
      <<<<"F", "I", "N", "D">>, "FindOp">>,
      <<<<"A", "L", "L">>, "AllOp">>,
      <<<<"A", "N", "Y">>, "AnyOp">>,
      <<<<"Z", "I", "P">>, "Zip">>,
      <<<<"U", "N", "Z", "I", "P">>, "Unzip">>,
      <<<<"F", "L", "A", "T", "T", "E", "N">>, "Flatten">>,
      <<<<"U", "N", "I", "Q", "U", "E">>, "Unique">>,
      <<<<"C", "O", "U", "N", "T">>, "CountOp">>,
      <<<<"G", "R", "O", "U", "P", "_", "B", "Y">>, "GroupBy">>,
      <<<<"P", "A", "R", "T", "I", "T", "I", "O", "N">>, "Partition">>,
      <<<<"T", "A", "K", "E">>, "TakeOp">>,
      <<<<"D", "R", "O", "P">>, "DropOp">>,
      <<<<"S", "L", "I", "C", "E">>, "SliceOp">>,
      <<<<"C", "O", "N", "C", "A", "T">>, "Concat">>,
      <<<<"S", "P", "L", "I", "T">>, "SplitOp">>,
      <<<<"R", "E", "P", "L", "A", "C", "E">>, "ReplaceOp">>,
      <<<<"T", "R", "I", "M">>, "Trim">>,
      <<<<"S", "T", "A", "R", "T", "S", "_", "W", "I", "T", "H">>, "StartsWith">>,
      <<<<"E", "N", "D", "S", "_", "W", "I", "T", "H">>, "EndsWith">>,
      <<<<"I", "N", "C", "L", "U", "D", "E", "S">>, "Includes">>,
      <<<<"I", "N", "D", "E", "X", "_", "O", "F">>, "IndexOfOp">>,
      <<<<"P", "A", "D">>, "Pad">>,
      <<<<"E", "V", "A", "L">>, "Eval">>,
      <<<<"T", "Y", "P", "E", "_", "O", "F">>, "TypeOfOp">>,
      <<<<"C", "L", "O", "N", "E">>, "CloneOp">>,
      <<<<"M", "E", "R", "G", "E">>, "Merge">>,
      <<<<"D", "I", "F", "F">>, "Diff">>,
      <<<<"I", "N", "T", "E", "R", "S", "E", "C", "T", "I", "O", "N">>, "Intersection">>,
      <<<<"U", "N", "I", "O", "N">>, "UnionOp">>,
      <<<<"C", "L", "E", "A", "R">>, "ClearOp">>,
      <<<<"S", "W", "A", "P">>, "SwapOp">>,
      <<<<"S", "H", "U", "F", "F", "L", "E">>, "Shuffle">>,
      <<<<"S", "A", "M", "P", "L", "E">>, "Sample">>,
      <<<<"M", "I", "N", "_", "O", "F">>, "MinOfOp">>,
      <<<<"M", "A", "X", "_", "O", "F">>, "MaxOfOp">>,
      <<<<"A", "V", "E", "R", "A", "G", "E">>, "AverageOp">>,
      <<<<"M", "E", "D", "I", "A", "N">>, "Median">>,
      <<<<"M", "O", "D", "E">>, "ModeOp">>,
      <<<<"S", "T", "D", "D", "E", "V">>, "StdDev">>,
      <<<<"V", "A", "R", "I", "A", "N", "C", "E">>, "Variance">>>>

Keyword(identifier) ==
    LET arms == {i \in 1..Len(Keywords) : Keywords[i][1] = identifier}
    IN  IF arms = {} THEN Identifier(identifier)
        ELSE Tok(Keywords[CHOOSE i \in arms : TRUE][2])

RECURSIVE next_token(_)

\* next_token after skip_whitespace
ScanToken(lx) ==
    LET c   == current_char(lx)
        ch  == c[1]
        lx1 == Lexer_advance(lx)
        One(t) == [lx |-> Lexer_advance(lx), tok |-> Tok(t)]
        Two(t) == [lx |-> Lexer_advance(Lexer_advance(lx)), tok |-> Tok(t)]
        Read(r, token) == [lx |-> r.lx, tok |-> token]
    IN  IF c = <<>> THEN [lx |-> lx, tok |-> Tok("EOF")]
        ELSE CASE ch = "\"" ->
                    [lx |-> read_string(lx).lx, tok |-> StringLiteral(read_string(lx).val)]
               [] ch = "+" -> One("Plus")
               [] ch = "-" -> One("Minus")
               [] ch = "*" ->
                    IF current_char(lx1) = <<"*">> THEN Two("Power") ELSE One("Star")
               [] ch = "/" -> One("Slash")
               [] ch = "%" -> One("Percent")
               [] ch = "=" ->
                    IF current_char(lx1) = <<"=">> THEN Two("Equal") ELSE One("Equal")
               [] ch = "!" ->
                    IF current_char(lx1) = <<"=">> THEN Two("NotEqual")
                    ELSE next_token(lx1)
               [] ch = "<" ->
                    IF current_char(lx1) = <<"=">> THEN Two("LessEqual")
                    ELSE One("Less")
               [] ch = ">" ->
                    IF current_char(lx1) = <<"=">> THEN Two("GreaterEqual")
                    ELSE One("Greater")
               [] ch = "(" -> One("LeftParen")
               [] ch = ")" -> One("RightParen")
               [] is_numeric(ch) ->
                    [lx |-> read_number(lx).lx, tok |-> Number(read_number(lx).val)]
               [] is_alphabetic(ch) ->
                    [lx |-> read_identifier(lx).lx,
                     tok |-> Keyword(read_identifier(lx).val)]
               [] OTHER -> next_token(lx1)

next_token(lexer) == ScanToken(skip_whitespace(lexer))

(***************************************************************************)
(* parser.rs.  The parser is its lexer and current_token; every parse      *)
(* function returns Result<T, String> and the parser it leaves.            *)
(***************************************************************************)
\* the Strings of the programs, as the names the interpreter's maps use
String(cs) ==
    CASE cs = <<"a", "d", "d">> -> "add"
      [] cs = <<"x">> -> "x"
      [] cs = <<"y">> -> "y"
      [] cs = <<"r", "e", "s", "u", "l", "t">> -> "result"
      [] cs = <<"q">> -> "q"
      [] cs = <<"a">> -> "a"
      [] cs = <<"r">> -> "r"
      [] cs = <<"i">> -> "i"
      [] cs = <<"c">> -> "c"
      [] cs = <<"n">> -> "n"
      [] cs = <<"f">> -> "f"
      [] cs = <<"g">> -> "g"
      [] cs = <<"s">> -> "s"
      [] cs = <<"t">> -> "t"
      [] cs = <<"k">> -> "k"
      [] cs = <<"v">> -> "v"
      [] cs = <<"w">> -> "w"
      [] cs = <<"h", "i">> -> "hi"
      [] cs = <<"h", "e", "l", "l", "o">> -> "hello"
      [] cs = <<"a", "c", "c">> -> "acc"
      [] cs = <<"i", "t", "e", "m">> -> "item"
      [] cs = <<"i", "n", "d", "e", "x">> -> "index"
      [] cs = <<"t", "o", "t", "a", "l">> -> "total"
      [] cs = <<"m", "a", "i", "n">> -> "main"
      [] cs = <<"l", "i", "b">> -> "lib"
      [] cs = <<"b", "a", "d">> -> "bad"
      [] cs = <<"l", "a", "t", "e">> -> "late"
      [] cs = <<"s", "e", "l", "f">> -> "self"
      [] cs = <<"p", "i", "n", "g">> -> "ping"
      [] cs = <<"p", "o", "n", "g">> -> "pong"
      [] cs = <<"m", "i", "s", "s", "i", "n", "g">> -> "missing"
      [] cs = <<"z">> -> "z"

POk(val, p) == [ok |-> TRUE, val |-> val, p |-> p, msg |-> <<>>]

PErr(msg) == [ok |-> FALSE, msg |-> msg]

\* {:?} of an f64: "2.0", "2.5"
DebugF64(v) == IF IsInt(v) THEN FormatF64(v) \o <<".", "0">> ELSE FormatF64(v)

\* {:?} of a Token
Debug(tok) ==
    CASE tok.t = "Identifier" -> <<"Identifier(\"">> \o tok.s \o <<"\")">>
      [] tok.t = "StringLiteral" -> <<"StringLiteral(\"">> \o tok.s \o <<"\")">>
      [] tok.t = "Number" -> <<"Number(">> \o DebugF64(tok.n) \o <<")">>
      [] OTHER -> <<tok.t>>

\* the tokens the successive calls of next_token return, up to the first EOF
RECURSIVE Tokens(_)

TokensFrom(r) == IF r.tok.t = "EOF" THEN <<>> ELSE <<r.tok>> \o Tokens(r.lx)

Tokens(lexer) == TokensFrom(next_token(lexer))

\* the parser: `lexer` is kept as the tokens its lexer has still to return
\* (after them, EOF at every call)
NextOf(tokens) ==
    IF tokens = <<>> THEN [lexer |-> <<>>, current_token |-> Tok("EOF")]
    ELSE [lexer |-> Tail(tokens), current_token |-> Head(tokens)]

Parser_new(lexer) == NextOf(Tokens(lexer))

Parser_advance(p) == NextOf(p.lexer)

\* `let x = r?; K(x)`: the error of r, or what follows with its value
Try(r, K(_)) == CHOOSE out \in {IF x.ok THEN K(x) ELSE x : x \in {r}} : TRUE

\* an Expect that takes the end of the input for the token
ExpectOrEOF(p, t, msg) ==
    IF p.current_token.t \notin {t, "EOF"} THEN PErr(msg)
    ELSE POk(<<>>, Parser_advance(p))

\* `if self.current_token != t { return Err(msg) }; self.advance()`
Expect(p, t, msg) ==
    IF p.current_token.t # t THEN PErr(msg) ELSE POk(<<>>, Parser_advance(p))

\* `if let Token::Identifier(name) = .. else { return Err(msg) }; self.advance()`
ExpectIdentifier(p, msg) ==
    IF p.current_token.t = "Identifier"
    THEN POk(String(p.current_token.s), Parser_advance(p))
    ELSE PErr(msg)

RECURSIVE parse_primary(_), parse_expression(_), BinaryLevel(_, _),
          BinaryLoop(_, _, _)

\* the conventional order: comparison looser than the additive operators
LevelOperatorsComparisonFirst(level) ==
    CASE level = 1 -> {"Or"}
      [] level = 2 -> {"And"}
      [] level = 3 -> {"Equal", "NotEqual", "Less", "Greater", "LessEqual",
                       "GreaterEqual"}
      [] level = 4 -> {"Plus", "Minus"}
      [] level = 5 -> {"Star", "Slash", "Percent"}
      [] level = 6 -> {"Power"}

\* the operators of parse_logical_or, parse_logical_and, parse_term,
\* parse_comparison, parse_factor and parse_power, in the order they call
\* one another
LevelOperators(level) ==
    CASE level = 1 -> {"Or"}
      [] level = 2 -> {"And"}
      [] level = 3 -> {"Plus", "Minus"}
      [] level = 4 -> {"Equal", "NotEqual", "Less", "Greater", "LessEqual",
                       "GreaterEqual"}
      [] level = 5 -> {"Star", "Slash", "Percent"}
      [] level = 6 -> {"Power"}

\* the operand parser a level calls: the next level, parse_primary at the end
Operand(p, level) ==
    IF level = 6 THEN parse_primary(p) ELSE BinaryLevel(p, level + 1)

\* while the current token is an operator of the level: left = left op right
BinaryLoop(p, left, level) ==
    IF p.current_token.t \in LevelOperators(level)
    THEN Try(Operand(Parser_advance(p), level), LAMBDA right :
             BinaryLoop(right.p, Bin(left, p.current_token.t, right.val), level))
    ELSE POk(left, p)

BinaryLevel(p, level) ==
    Try(Operand(p, level), LAMBDA left : BinaryLoop(left.p, left.val, level))

parse_logical_or(p) == BinaryLevel(p, 1)

parse_expression(p) == parse_logical_or(p)

\* parse_primary at a built-in function's name op
BuiltinCall(p, op) ==
    Try(Expect(Parser_advance(p), "LeftParen", <<"Expected ( after ", op>>),
        LAMBDA open :
        CASE op \in {"Min", "Max"} ->
               Try(parse_primary(open.p), LAMBDA first_arg :
               Try(parse_primary(first_arg.p), LAMBDA second_arg :
               Try(Expect(second_arg.p, "RightParen",
                          <<"Expected ) after function arguments">>),
                   LAMBDA close :
                   POk(Bin(first_arg.val, op, second_arg.val), close.p))))
          [] op \in {"Floor", "Ceil", "Round"} ->
               Try(parse_primary(open.p), LAMBDA arg :
               Try(Expect(arg.p, "RightParen", <<"Expected ) after function argument">>),
                   LAMBDA close : POk(Bin(Num(0), op, arg.val), close.p)))
          [] op = "Random" ->
               Try(Expect(open.p, "RightParen", <<"Expected ) after RANDOM">>),
                   LAMBDA close : POk(Bin(Num(0), op, Num(0)), close.p))
          [] op \in {"Size", "Length"} ->
               IF open.p.current_token.t = "StringLiteral"
               THEN Try(Expect(Parser_advance(open.p), "RightParen",
                               <<"Expected ) after LENGTH argument">>),
                        LAMBDA close :
                        POk([e |-> "Number", n |-> N(Len(open.p.current_token.s))],
                            close.p))
               ELSE IF open.p.current_token.t = "Identifier"
               THEN Try(Expect(Parser_advance(open.p), "RightParen",
                               <<"Expected ) after LENGTH argument">>),
                        LAMBDA close :
                        POk(Bin(Recall(String(open.p.current_token.s)), op, Num(0)),
                            close.p))
               ELSE PErr(<<"LENGTH expects string literal or identifier">>))

parse_primary(p) ==
    LET t == p.current_token.t
    IN  IF t = "Not"
        THEN Try(parse_primary(Parser_advance(p)), LAMBDA expr :
                 POk(Bin(Num(0), "Not", expr.val), expr.p))
        ELSE CASE t = "Number" ->
                    POk([e |-> "Number", n |-> p.current_token.n], Parser_advance(p))
               [] t \in {"Min", "Max", "Floor", "Ceil", "Round", "Random", "Length",
                         "Size"} -> BuiltinCall(p, t)
               [] t = "Recall" ->
                    Try(ExpectIdentifier(Parser_advance(p),
                                         <<"Expected identifier after RECALL">>),
                        LAMBDA var_name : POk(Recall(var_name.val), var_name.p))
               [] t = "Minus" ->
                    Try(parse_primary(Parser_advance(p)), LAMBDA expr :
                        POk(Bin(Num(0), "Minus", expr.val), expr.p))
               [] t = "LeftParen" ->
                    Try(parse_expression(Parser_advance(p)), LAMBDA expr :
                    Try(Expect(expr.p, "RightParen", <<"Expected closing parenthesis">>),
                        LAMBDA close : POk(expr.val, close.p)))
               [] OTHER ->
                    PErr(<<"Unexpected token in expression: ">> \o Debug(p.current_token))

parse_intent_declaration(p) ==
    Try(ExpectIdentifier(Parser_advance(p), <<"Expected identifier after INTENT">>),
        LAMBDA name :
        IF name.p.current_token.t # "StringLiteral"
        THEN PErr(<<"Expected string literal after intent name">>)
        ELSE POk(IntentDeclaration(name.val, String(name.p.current_token.s)),
                 Parser_advance(name.p)))

parse_calculate(p) ==
    Try(ExpectIdentifier(Parser_advance(p), <<"Expected identifier after CALCULATE">>),
        LAMBDA name :
    Try(parse_expression(name.p), LAMBDA expression :
        POk(Calculate(name.val, expression.val), expression.p)))

parse_store(p) ==
    Try(ExpectIdentifier(Parser_advance(p), <<"Expected identifier after STORE">>),
        LAMBDA name :
    Try(parse_expression(name.p), LAMBDA value :
        POk(Store(name.val, value.val), value.p)))

parse_increment(p) ==
    Try(ExpectIdentifier(Parser_advance(p), <<"Expected variable name after INCREMENT">>),
        LAMBDA variable : POk(Increment(variable.val), variable.p))

parse_decrement(p) ==
    Try(ExpectIdentifier(Parser_advance(p), <<"Expected variable name after DECREMENT">>),
        LAMBDA variable : POk(Decrement(variable.val), variable.p))

parse_assert(p) ==
    Try(parse_expression(Parser_advance(p)), LAMBDA condition :
        IF condition.p.current_token.t = "StringLiteral"
        THEN POk(AssertStmt(condition.val, <<String(condition.p.current_token.s)>>),
                 Parser_advance(condition.p))
        ELSE POk(AssertStmt(condition.val, <<>>), condition.p))

parse_array_create(p) ==
    Try(ExpectIdentifier(Parser_advance(p), <<"Expected identifier after ARRAY">>),
        LAMBDA name : POk(ArrayCreate(name.val), name.p))

parse_array_push(p) ==
    Try(ExpectIdentifier(Parser_advance(p), <<"Expected array name after PUSH">>),
        LAMBDA array_name :
    Try(parse_expression(array_name.p), LAMBDA value :
        POk(ArrayPush(array_name.val, value.val), value.p)))

parse_array_pop(p) ==
    Try(ExpectIdentifier(Parser_advance(p), <<"Expected array name after POP">>),
        LAMBDA array_name :
    Try(ExpectIdentifier(array_name.p,
                         <<"Expected result variable name after POP array">>),
        LAMBDA result_name :
        POk(ArrayPop(array_name.val, result_name.val), result_name.p)))

parse_import(p) ==
    IF Parser_advance(p).current_token.t = "StringLiteral"
    THEN POk(Import(String(Parser_advance(p).current_token.s)),
             Parser_advance(Parser_advance(p)))
    ELSE PErr(<<"Expected filename string after IMPORT">>)

parse_array_sort(p) ==
    Try(ExpectIdentifier(Parser_advance(p), <<"Expected array name after SORT">>),
        LAMBDA array_name :
        IF array_name.p.current_token = Identifier(<<"D", "E", "S", "C">>)
        THEN POk(ArraySort(array_name.val, FALSE), Parser_advance(array_name.p))
        ELSE IF array_name.p.current_token = Identifier(<<"A", "S", "C">>)
        THEN POk(ArraySort(array_name.val, TRUE), Parser_advance(array_name.p))
        ELSE POk(ArraySort(array_name.val, TRUE), array_name.p))

parse_return(p) ==
    IF Parser_advance(p).current_token.t \in {"EOF", "End"}
    THEN POk(Return(<<>>), Parser_advance(p))
    ELSE Try(parse_expression(Parser_advance(p)), LAMBDA value :
             POk(Return(<<value.val>>), value.p))

\* `if self.current_token == Token::Plus { self.advance(); }`
SkipPlus(p) == IF p.current_token.t = "Plus" THEN Parser_advance(p) ELSE p

\* the parameter loop of parse_function_definition
RECURSIVE ParseParameters(_, _)
ParseParameters(p, parameters) ==
    IF p.current_token.t \in {"RightParen", "EOF"} THEN POk(parameters, p)
    ELSE IF p.current_token.t = "Identifier"
    THEN ParseParameters(SkipPlus(Parser_advance(p)),
                         Append(parameters, String(p.current_token.s)))
    ELSE PErr(<<"Expected parameter name">>)

\* the argument loop of parse_function_call
RECURSIVE ParseArguments(_, _)
ParseArguments(p, arguments) ==
    IF p.current_token.t \in {"RightParen", "EOF"} THEN POk(arguments, p)
    ELSE Try(parse_expression(p), LAMBDA arg :
             ParseArguments(SkipPlus(arg.p), Append(arguments, arg.val)))

\* the optional parenthesised list of a definition (parameters) or a call
CallArguments(p) ==
    IF p.current_token.t # "LeftParen" THEN POk(<<>>, p)
    ELSE Try(ParseArguments(Parser_advance(p), <<>>), LAMBDA arguments :
         Try(Expect(arguments.p, "RightParen", <<"Expected ) after function arguments">>),
             LAMBDA close : POk(arguments.val, close.p)))

parse_function_call(p) ==
    Try(ExpectIdentifier(Parser_advance(p), <<"Expected function name after CALL">>),
        LAMBDA function_name :
    Try(CallArguments(function_name.p), LAMBDA arguments :
        IF arguments.p.current_token.t = "Identifier"
        THEN POk(FunctionCall(function_name.val, arguments.val,
                              <<String(arguments.p.current_token.s)>>),
                 Parser_advance(arguments.p))
        ELSE POk(FunctionCall(function_name.val, arguments.val, <<>>), arguments.p)))

\* a statement loop: the tokens that end the loop, the tokens it has a
\* match arm for, the error of its arm for EOF when it has one, and the
\* message of its catch-all arm
Loop(stops, allowed, eof_msg, unexpected) ==
    [stops |-> stops, allowed |-> allowed, eof_msg |-> eof_msg,
     unexpected |-> unexpected]

LoopOf(construct) ==
    LET simple == {"Intent", "Manifest", "Calculate", "Store", "Combine", "Print",
                   "Break", "Continue"}
        nested == {"Intent", "Manifest", "Calculate", "Store", "Combine", "Repeat",
                   "If", "Print", "While", "Increment", "Decrement", "For", "Assert"}
    IN  CASE construct = "parse" ->
               Loop({"EOF"},
                    nested \cup
                      {"Try", "Uppercase", "Lowercase", "Switch", "Array", "Push",
                       "Pop", "Get", "Set", "Import", "Export", "Break", "Continue",
                       "Function", "Call", "Return", "Sort", "Filter", "Reverse",
                       "Map", "Sum", "Join", "Dict", "Put", "Fetch", "Keys",
                       "Values", "Delete", "ReadFile", "WriteFile", "AppendFile",
                       "Exists", "Sleep", "Input", "Type", "Parse"},
                    <<>>, "Unexpected token: ")
          [] construct = "repeat" ->
               Loop({"End", "EOF"}, simple, <<>>, "Unexpected token in repeat body: ")
          [] construct = "then" ->
               Loop({"Else", "End", "EOF"}, simple \cup {"Return"}, <<>>,
                    "Unexpected token in IF body: ")
          [] construct = "else" ->
               Loop({"End", "EOF"}, simple \cup {"Return", "If"}, <<>>,
                    "Unexpected token in ELSE body: ")
          [] construct = "while" ->
               Loop({"End", "EOF"}, simple \cup {"If", "Increment", "Decrement"}, <<>>,
                    "Unexpected token in WHILE body: ")
          [] construct = "try" ->
               Loop({"Catch"}, nested, <<"Expected CATCH after TRY">>,
                    "Unexpected token in TRY body: ")
          [] construct = "catch" ->
               Loop({"End"}, nested, <<"Expected END after CATCH">>,
                    "Unexpected token in CATCH body: ")
          [] construct = "for" ->
               Loop({"End", "EOF"},
                    {"Intent", "Manifest", "Calculate", "Store", "Combine", "Print",
                     "If", "Increment", "Decrement", "For", "Array", "Push", "Pop",
                     "Get", "Set", "Break", "Continue"},
                    <<>>, "Unexpected token in FOR body: ")
          [] construct = "case" ->
               Loop({"Case", "Default", "End"}, nested \cup {"Switch"},
                    <<"Expected CASE, DEFAULT, or END in SWITCH">>,
                    "Unexpected token in CASE body: ")
          [] construct = "default" ->
               Loop({"End"}, nested \cup {"Switch"}, <<"Expected END after DEFAULT">>,
                    "Unexpected token in DEFAULT body: ")
          [] construct = "function" ->
               Loop({"End", "EOF"},
                    {"Intent", "Manifest", "Calculate", "Store", "Print", "If",
                     "While", "For", "Return", "Call"},
                    <<>>, "Unexpected token in function body: ")

RECURSIVE ParseStatement(_), ParseBody(_, _, _)

\* a statement loop: `while current_token is not in stops { match .. }`
ParseBody(p, loop, body) ==
    LET t == p.current_token.t
    IN  IF t \in loop.stops THEN POk(body, p)
        ELSE IF t = "EOF" /\ loop.eof_msg # <<>> THEN PErr(loop.eof_msg)
        ELSE IF t \in loop.allowed
        THEN Try(ParseStatement(p), LAMBDA stmt :
                 ParseBody(stmt.p, loop, Append(body, stmt.val)))
        ELSE PErr(<<loop.unexpected>> \o Debug(p.current_token))

\* the statement list of a construct, from its first token
Body(p, construct) == ParseBody(p, LoopOf(construct), <<>>)

parse_repeat(p) ==
    Try(parse_expression(Parser_advance(p)), LAMBDA count :
    Try(Expect(count.p, "Times", <<"Expected TIMES after repeat count">>), LAMBDA times :
    Try(Expect(times.p, "Do", <<"Expected DO after TIMES">>), LAMBDA do :
    Try(Body(do.p, "repeat"), LAMBDA body :
    Try(Expect(body.p, "End", <<"Expected END to close REPEAT">>), LAMBDA end :
        POk(Repeat(count.val, body.val), end.p))))))

\* the optional ELSE part of parse_if: Option<Vec<Statement>>
ElsePart(p) ==
    IF p.current_token.t # "Else" THEN POk(<<>>, p)
    ELSE Try(Body(Parser_advance(p), "else"), LAMBDA else_stmts :
             POk(<<else_stmts.val>>, else_stmts.p))

parse_if(p) ==
    Try(parse_expression(Parser_advance(p)), LAMBDA condition :
    Try(Expect(condition.p, "Then", <<"Expected THEN after IF condition">>),
        LAMBDA then :
    Try(Body(then.p, "then"), LAMBDA then_body :
    Try(ElsePart(then_body.p), LAMBDA else_body :
    Try(Expect(else_body.p, "End", <<"Expected END to close IF">>), LAMBDA end :
        POk(If(condition.val, then_body.val, else_body.val), end.p))))))

parse_while(p) ==
    Try(parse_expression(Parser_advance(p)), LAMBDA condition :
    Try(Expect(condition.p, "Do", <<"Expected DO after WHILE condition">>), LAMBDA do :
    Try(Body(do.p, "while"), LAMBDA body :
    Try(Expect(body.p, "End", <<"Expected END to close WHILE">>), LAMBDA end :
        POk(While(condition.val, body.val), end.p)))))

parse_try_catch(p) ==
    Try(Body(Parser_advance(p), "try"), LAMBDA try_body :
    Try(Body(Parser_advance(try_body.p), "catch"), LAMBDA catch_body :
    Try(Expect(catch_body.p, "End", <<"Expected END to close TRY/CATCH">>), LAMBDA end :
        POk(TryCatch(try_body.val, catch_body.val), end.p))))

\* the optional parameter list of parse_function_definition
Parameters(p) ==
    IF p.current_token.t # "LeftParen" THEN POk(<<>>, p)
    ELSE Try(ParseParameters(Parser_advance(p), <<>>), LAMBDA parameters :
         Try(Expect(parameters.p, "RightParen",
                    <<"Expected ) after function parameters">>),
             LAMBDA close : POk(parameters.val, close.p)))

parse_function_definition(p) ==
    Try(ExpectIdentifier(Parser_advance(p), <<"Expected function name after FUNCTION">>),
        LAMBDA function_name :
    Try(Parameters(function_name.p), LAMBDA parameters :
    Try(Expect(parameters.p, "Do", <<"Expected DO after function signature">>),
        LAMBDA do :
    Try(Body(do.p, "function"), LAMBDA body :
    Try(Expect(body.p, "End", <<"Expected END to close FUNCTION">>), LAMBDA end :
        POk(FunctionDefinition(function_name.val, parameters.val, body.val),
            end.p))))))

\* the loop of parse_combine and parse_print over string literals and
\* identifiers
RECURSIVE ParseParts(_, _)
ParseParts(p, parts) ==
    CASE p.current_token.t = "StringLiteral" ->
           ParseParts(Parser_advance(p), Append(parts, Str(p.current_token.s)))
      [] p.current_token.t = "Identifier" ->
           ParseParts(Parser_advance(p),
                      Append(parts, Placeholder(Str(p.current_token.s))))
      [] OTHER -> POk(parts, p)

parse_combine(p) ==
    Try(ExpectIdentifier(Parser_advance(p), <<"Expected identifier after COMBINE">>),
        LAMBDA name :
    Try(ParseParts(name.p, <<>>), LAMBDA parts :
        IF parts.val = <<>>
        THEN PErr(<<"Expected strings or identifiers after COMBINE name">>)
        ELSE POk(Combine(name.val, parts.val), parts.p)))

parse_print(p) ==
    Try(ParseParts(Parser_advance(p), <<>>), LAMBDA items :
        IF items.val = <<>> THEN PErr(<<"Expected items after PRINT">>)
        ELSE POk(PrintStmt(items.val), items.p))

\* the optional STEP part of parse_for: Option<Expression>
StepPart(p) ==
    IF p.current_token.t # "Step" THEN POk(<<>>, p)
    ELSE Try(parse_expression(Parser_advance(p)), LAMBDA step :
             POk(<<step.val>>, step.p))

parse_for(p) ==
    Try(ExpectIdentifier(Parser_advance(p), <<"Expected variable name after FOR">>),
        LAMBDA variable :
    Try(parse_expression(variable.p), LAMBDA start :
    Try(Expect(start.p, "To", <<"Expected TO after FOR start value">>), LAMBDA to :
    Try(parse_expression(to.p), LAMBDA end :
    Try(StepPart(end.p), LAMBDA step :
    Try(Expect(step.p, "Do", <<"Expected DO after FOR parameters">>), LAMBDA do :
    Try(Body(do.p, "for"), LAMBDA body :
    Try(Expect(body.p, "End", <<"Expected END to close FOR">>), LAMBDA close :
        POk(For(variable.val, start.val, end.val, step.val, body.val),
            close.p)))))))))

\* the loop of parse_switch over CASE and DEFAULT, which DEFAULT leaves
RECURSIVE SwitchArms(_, _)
SwitchArms(p, cases) ==
    CASE p.current_token.t = "End" -> POk([cases |-> cases, default_case |-> <<>>], p)
      [] p.current_token.t = "Case" ->
           Try(parse_expression(Parser_advance(p)), LAMBDA case_value :
           Try(Expect(case_value.p, "Do", <<"Expected DO after CASE value">>),
               LAMBDA do :
           Try(Body(do.p, "case"), LAMBDA case_body :
               SwitchArms(case_body.p,
                          Append(cases, <<case_value.val, case_body.val>>)))))
      [] p.current_token.t = "Default" ->
           Try(Expect(Parser_advance(p), "Do", <<"Expected DO after DEFAULT">>),
               LAMBDA do :
           Try(Body(do.p, "default"), LAMBDA default_body :
               POk([cases |-> cases, default_case |-> <<default_body.val>>],
                   default_body.p)))
      [] OTHER ->
           PErr(<<"Expected CASE or DEFAULT in SWITCH: ">> \o Debug(p.current_token))

parse_switch(p) ==
    Try(parse_expression(Parser_advance(p)), LAMBDA expression :
    Try(SwitchArms(expression.p, <<>>), LAMBDA arms :
    Try(Expect(arms.p, "End", <<"Expected END to close SWITCH">>), LAMBDA end :
        POk(Switch(expression.val, arms.val.cases, arms.val.default_case),
            end.p))))

\* the match arms of the statement loops: the parse function of each token
ParseStatement(p) ==
    LET t == p.current_token.t
    IN  CASE t = "Intent" -> parse_intent_declaration(p)
          [] t = "Calculate" -> parse_calculate(p)
          [] t = "Store" -> parse_store(p)
          [] t = "Combine" -> parse_combine(p)
          [] t = "Repeat" -> parse_repeat(p)
          [] t = "If" -> parse_if(p)
          [] t = "Print" -> parse_print(p)
          [] t = "While" -> parse_while(p)
          [] t = "Increment" -> parse_increment(p)
          [] t = "Decrement" -> parse_decrement(p)
          [] t = "For" -> parse_for(p)
          [] t = "Assert" -> parse_assert(p)
          [] t = "Try" -> parse_try_catch(p)
          [] t = "Switch" -> parse_switch(p)
          [] t = "Array" -> parse_array_create(p)
          [] t = "Push" -> parse_array_push(p)
          [] t = "Pop" -> parse_array_pop(p)
          [] t = "Import" -> parse_import(p)
          [] t = "Break" -> POk(Break, Parser_advance(p))
          [] t = "Continue" -> POk(Continue, Parser_advance(p))
          [] t = "Function" -> parse_function_definition(p)
          [] t = "Call" -> parse_function_call(p)
          [] t = "Return" -> parse_return(p)
          [] t = "Sort" -> parse_array_sort(p)

\* a parser that hands over the statements it parsed before the error
RECURSIVE ParseLoopUpToError(_, _)
ParseLoopUpToError(p, body) ==
    IF p.current_token.t = "EOF" THEN POk(body, p)
    ELSE LET stmt == ParseStatement(p)
         IN  IF stmt.ok THEN ParseLoopUpToError(stmt.p, Append(body, stmt.val))
             ELSE POk(body, p)

ParseUpToError(p) == ParseLoopUpToError(p, <<>>)

\* Parser::parse
parse(p) == Body(p, "parse")

(***************************************************************************)
(* The files fs::read_to_string finds, and the Import arm of execute.      *)
(***************************************************************************)
Files ==
    [f \in {"lib", "late", "bad", "self", "ping", "pong"} |->
        CASE f = "lib" ->
            <<"S", "T", "O", "R", "E", " ", "z", " ", "5">>
          [] f = "late" ->
            <<"S", "T", "O", "R", "E", " ", "z", " ", "5", "\n", "S", "T", "O", "R",
              "E", " ", "w", " ", "+">>
          [] f = "bad" ->
            <<"S", "T", "O", "R", "E", " ", "z", " ", "+">>
          [] f = "self" ->
            <<"I", "N", "C", "R", "E", "M", "E", "N", "T", " ", "z", "\n", "I", "M",
              "P", "O", "R", "T", " ", "\"", "s", "e", "l", "f", "\"", "\n", "S", "T",
              "O", "R", "E", " ", "w", " ", "1">>
          [] f = "ping" ->
            <<"I", "N", "C", "R", "E", "M", "E", "N", "T", " ", "z", "\n", "I", "M",
              "P", "O", "R", "T", " ", "\"", "p", "o", "n", "g", "\"", "\n", "S", "T",
              "O", "R", "E", " ", "w", " ", "1">>
          [] f = "pong" ->
            <<"I", "M", "P", "O", "R", "T", " ", "\"", "p", "i", "n", "g", "\"", "\n",
              "S", "T", "O", "R", "E", " ", "w", " ", "2">>]

\* what fs::read_to_string finds: a file written by this run, else a file
\* that was there before
Disk ==
    [f \in (DOMAIN Files) \cup (DOMAIN written) |->
        IF Has(written, f) THEN written[f] ELSE Files[f]]

\* an Import arm that follows an IMPORT only from the outermost execute
ExecImportOutermostOnly ==
    /\ At("Import")
    /\ IF ~Has(Disk, Cur.filename)
       THEN Fail(<<"Failed to read file '", Cur.filename, "': ",
                   "No such file or directory (os error 2)">>)
       ELSE \E imported_statements \in
                   {parse(Parser_new(Lexer_new(Disk[Cur.filename])))} :
                IF ~imported_statements.ok
                THEN Fail(<<"Parse error in '", Cur.filename, "': ">>
                          \o imported_statements.msg)
                ELSE IF Len(ctl) > 1 THEN Done
                ELSE Enter(Block(imported_statements.val))
    /\ UNCHANGED <<pc, prog, outcome, intents, calculations, variables, arrays,
                   functions, call_stack, random_seed, draws,
                   dicts, first, lexing, returned, written, console, parsing>>

\* the nesting of execute calls up to which an IMPORT is followed
MaxDepth == MaxCount + 2

ExecImport ==
    /\ At("Import")
    /\ Len(ctl) <= MaxDepth
    /\ IF ~Has(Disk, Cur.filename)
       THEN Fail(<<"Failed to read file '", Cur.filename, "': ",
                   "No such file or directory (os error 2)">>)
       ELSE \E imported_statements \in
                   {parse(Parser_new(Lexer_new(Disk[Cur.filename])))} :
                IF ~imported_statements.ok
                THEN Fail(<<"Parse error in '", Cur.filename, "': ">>
                          \o imported_statements.msg)
                ELSE Enter(Block(imported_statements.val))
    /\ UNCHANGED <<pc, prog, outcome, intents, calculations, variables, arrays,
                   functions, call_stack, random_seed, draws,
                   dicts, first, lexing, returned, written, console, parsing>>

(***************************************************************************)
(* The program texts given to main.                                        *)
(***************************************************************************)
SourceIds ==
    {"text_add",
     "text_add_recall",
     "text_add_spaced",
     "text_try_break",
     "text_divide",
     "text_sort",
     "text_recall",
     "text_repeat",
     "text_while",
     "text_import",
     "text_late_error",
     "text_import_late"}

Source(id) ==
    CASE id = "text_add" ->
          <<"F", "U", "N", "C", "T", "I", "O", "N", " ", "a", "d", "d", "(", "x",
          " ", "+", " ", "y", ")", " ", "D", "O", " ", "R", "E", "T", "U", "R",
          "N", " ", "x", " ", "+", " ", "y", " ", "E", "N", "D", "\n", "C", "A",
          "L", "L", " ", "a", "d", "d", "(", "2", " ", "+", " ", "3", ")", " ",
          "r", "e", "s", "u", "l", "t">>
      [] id = "text_add_recall" ->
          <<"F", "U", "N", "C", "T", "I", "O", "N", " ", "a", "d", "d", "(", "x",
          " ", "+", " ", "y", ")", " ", "D", "O", " ", "R", "E", "T", "U", "R",
          "N", " ", "R", "E", "C", "A", "L", "L", " ", "x", " ", "+", " ", "R",
          "E", "C", "A", "L", "L", " ", "y", " ", "E", "N", "D", "\n", "C", "A",
          "L", "L", " ", "a", "d", "d", "(", "2", " ", "+", " ", "3", ")", " ",
          "r", "e", "s", "u", "l", "t">>
      [] id = "text_add_spaced" ->
          <<"F", "U", "N", "C", "T", "I", "O", "N", " ", "a", "d", "d", "(", "x",
          " ", "y", ")", " ", "D", "O", " ", "R", "E", "T", "U", "R", "N", " ",
          "R", "E", "C", "A", "L", "L", " ", "x", " ", "+", " ", "R", "E", "C",
          "A", "L", "L", " ", "y", " ", "E", "N", "D", "\n", "C", "A", "L", "L",
          " ", "a", "d", "d", "(", "2", " ", "3", ")", " ", "r", "e", "s", "u",
          "l", "t">>
      [] id = "text_try_break" ->
          <<"#", " ", "a", " ", "c", "o", "n", "t", "r", "o", "l", " ", "t", "r",
          "a", "n", "s", "f", "e", "r", " ", "i", "n", "s", "i", "d", "e", " ",
          "T", "R", "Y", "\n", "T", "R", "Y", " ", "I", "F", " ", "1", " ", "T",
          "H", "E", "N", " ", "B", "R", "E", "A", "K", " ", "E", "N", "D", " ",
          "C", "A", "T", "C", "H", " ", "S", "T", "O", "R", "E", " ", "x", " ",
          "0", " ", "-", " ", "1", " ", "E", "N", "D", "\n", "S", "T", "O", "R",
          "E", " ", "y", " ", "2">>
      [] id = "text_divide" ->
          <<"S", "T", "O", "R", "E", " ", "x", " ", "1", "0", "\n", "C", "A", "L",
          "C", "U", "L", "A", "T", "E", " ", "r", " ", "5", " ", "/", " ", "0",
          "\n", "S", "T", "O", "R", "E", " ", "y", " ", "1">>
      [] id = "text_sort" ->
          <<"A", "R", "R", "A", "Y", " ", "a", " ", "P", "U", "S", "H", " ", "a",
          " ", "1", " ", "P", "U", "S", "H", " ", "a", " ", "2", " ", "P", "U",
          "S", "H", " ", "a", " ", "3", " ", "S", "O", "R", "T", " ", "a", " ",
          "D", "E", "S", "C", " ", "P", "O", "P", " ", "a", " ", "r">>
      [] id = "text_recall" ->
          <<"S", "T", "O", "R", "E", " ", "x", " ", "1", "0", " ", "S", "T", "O",
          "R", "E", " ", "y", " ", "R", "E", "C", "A", "L", "L", " ", "x", " ",
          "*", " ", "2", ".", "5", " ", "C", "A", "L", "C", "U", "L", "A", "T",
          "E", " ", "z", " ", "R", "E", "C", "A", "L", "L", " ", "q">>
      [] id = "text_repeat" ->
          <<"R", "E", "P", "E", "A", "T", " ", "3", " ", "T", "I", "M", "E", "S",
          " ", "D", "O", " ", "C", "A", "L", "C", "U", "L", "A", "T", "E", " ",
          "c", " ", "R", "A", "N", "D", "O", "M", "(", ")", " ", "B", "R", "E",
          "A", "K", " ", "E", "N", "D", " ", "S", "T", "O", "R", "E", " ", "y",
          " ", "1">>
      [] id = "text_while" ->
          <<"S", "T", "O", "R", "E", " ", "i", " ", "0", " ", "W", "H", "I", "L",
          "E", " ", "R", "E", "C", "A", "L", "L", " ", "i", " ", "<", " ", "3",
          " ", "D", "O", " ", "I", "N", "C", "R", "E", "M", "E", "N", "T", " ",
          "i", " ", "I", "F", " ", "R", "E", "C", "A", "L", "L", " ", "i", " ",
          "=", "=", " ", "2", " ", "T", "H", "E", "N", " ", "B", "R", "E", "A",
          "K", " ", "E", "N", "D", " ", "E", "N", "D">>
      [] id = "text_import" ->
          <<"I", "N", "T", "E", "N", "T", " ", "s", " ", "\"", "h", "i", "\"", " ",
          "I", "M", "P", "O", "R", "T", " ", "\"", "l", "i", "b", "\"", " ", "A",
          "S", "S", "E", "R", "T", " ", "R", "E", "C", "A", "L", "L", " ", "z",
          " ", ">", "=", " ", "L", "E", "N", "G", "T", "H", "(", "s", ")", " ",
          "\"", "b", "a", "d", "\"", " ", "D", "E", "C", "R", "E", "M", "E", "N",
          "T", " ", "z">>
      [] id = "text_late_error" ->
          <<"S", "T", "O", "R", "E", " ", "x", " ", "1", "\n", "S", "T", "O", "R", "E", " ", "y", " ", "+">>
      [] id = "text_import_late" ->
          <<"S", "T", "O", "R", "E", " ", "x", " ", "1", "\n", "I", "M", "P", "O", "R", "T", " ", "\"", "l", "a", "t", "e", "\"", "\n", "S", "T", "O", "R", "E", " ", "y", " ", "2">>

(***************************************************************************)
(* The statement lists given to execute.  A program is named by its id     *)
(* and two numbers n, k in 0..MaxCount that fix its counts and the         *)
(* variant of each of its parts.                                           *)
(***************************************************************************)
RandomCall == Bin(Num(0), "Random", Num(0))

\* s when c holds, else nothing
When(c, s) == IF c THEN s ELSE <<>>

\* CALCULATE of a division or a modulo, by zero when k < 2; in a TRY when
\* n >= 2
CalculateProgram(n, k) ==
    LET divisor == Bin(Recall("q"), "Minus", Num(7 - (k \div 2)))
        quot == Bin(Num(6), IF k % 2 = 0 THEN "Slash" ELSE "Percent", divisor)
        stmt == Calculate(IF n % 2 = 0 THEN "q" ELSE "r",
                          Bin(RandomCall, "Plus", quot))
    IN  <<Calculate("q", Num(7)),
          IF n < 2 THEN stmt ELSE TryCatch(<<stmt>>, <<Store("caught", Num(1))>>),
          Store("after", Num(1))>>

\* RECALL x in a function whose parameter is x (k = 0) or y, with x in
\* Variables when n is odd, in Calculations when n \div 2 is odd, and in
\* Intents
RecallProgram(n, k) ==
    <<IntentDeclaration("x", "hi")>>
    \o When(n % 2 = 1, <<Store("x", Num(1))>>)
    \o When((n \div 2) % 2 = 1, <<Calculate("x", Num(2))>>)
    \o <<FunctionDefinition("f", <<IF k = 0 THEN "x" ELSE "y">>,
                            <<Store("got", Recall("x")), Return(<<Recall("got")>>)>>),
         FunctionCall("f", <<Num(3)>>, <<"r">>),
         Store("out", Recall("x"))>>

\* REPEAT n times with a BREAK in iteration k; the body changes the
\* variable the count was read from
RepeatProgram(n, k) ==
    <<Store("n", Num(n)), Store("i", Num(0)),
      Repeat(Recall("n"),
             <<Increment("i"), Increment("n"),
               If(Bin(Recall("i"), "Equal", Num(k)), <<Break>>, <<>>),
               Increment("full")>>),
      Store("after", Num(1))>>

\* a call of f(a, b) whose body returns a - b, falls through, returns
\* nothing, or returns a draw
CallProgram(n, k) ==
    LET body ==
          CASE k = 0 -> <<Return(<<Bin(Recall("a"), "Minus", Recall("b"))>>),
                          Store("dead", Num(1))>>
            [] k = 1 -> <<Calculate("t", Recall("a"))>>
            [] k = 2 -> <<If(Bin(Recall("a"), "Less", Recall("b")), <<Return(<<>>)>>,
                             <<>>)>>
            [] OTHER -> <<Return(<<RandomCall>>)>>
    IN  <<FunctionDefinition("f", <<"a", IF n = 0 THEN "a" ELSE "b">>, body),
          FunctionCall("f", <<Num(n), Bin(Num(n), "Plus", Num(1))>>,
                       When(n < 3, <<"r">>)),
          Store("out", Recall("a"))>>

\* f(x) calls itself with x - 1 down to 0 and returns x + k
RecursionProgram(n, k) ==
    <<FunctionDefinition("g", <<"x">>,
        <<If(Bin(Recall("x"), "Greater", Num(0)),
             <<FunctionCall("g", <<Bin(Recall("x"), "Minus", Num(1))>>, <<"r">>)>>,
             <<>>),
          Return(<<Bin(Recall("x"), "Plus", Num(k))>>)>>),
      FunctionCall("g", <<Num(n)>>, <<"r">>)>>

\* PUSH 1, 2, 3; SORT descending (n = 0) or ascending; POP; GET at k
SortProgram(n, k) ==
    <<ArrayCreate("a"), ArrayPush("a", Num(1)), ArrayPush("a", Num(2)),
      ArrayPush("a", Num(3)), ArraySort("a", n # 0), ArrayPop("a", "r"),
      ArrayGet("a", Num(k), "g")>>

RECURSIVE Pushes(_)
Pushes(k) == IF k = 0 THEN <<>> ELSE Append(Pushes(k - 1), ArrayPush("a", Num(k)))

\* n draws in a loop, a SHUFFLE of k elements, two draws in one expression
RandomProgram(n, k) ==
    <<ArrayCreate("a")>> \o Pushes(k)
    \o <<Repeat(Num(n), <<Store("v", RandomCall)>>), Shuffle("a"),
         Store("w", Bin(RandomCall, "Plus", RandomCall)),
         Store("v", RandomCall)>>

\* a statement that fails with the error of the kind
ErrorStmt(kind) ==
    CASE kind = 0 -> Store("e", Recall("nowhere"))
      [] kind = 1 -> Calculate("e", Bin(Num(1), "Slash", Num(0)))
      [] kind = 2 -> ArrayGet("arr", Num(5), "e")
      [] kind = 3 -> AssertStmt(Num(0), <<"hello">>)
      [] kind = 4 -> FunctionCall("h", <<Num(1)>>, <<>>)
      [] OTHER -> Import("missing")

\* the try body fails (n = 0) or not; the catch body fails when k = 1
TryProgram(n, k) ==
    <<Store("x", Num(n)), ArrayCreate("arr"),
      TryCatch(<<Store("t", Num(1)),
                 IF k < 2 THEN Calculate("q", Bin(Num(60), "Slash", Recall("x")))
                 ELSE IF n = 0 THEN ErrorStmt(k) ELSE Store("q", Num(6)),
                 Store("t2", Num(2))>>,
               <<Store("caught", Num(0 - 1))>>
               \o When(k = 1, <<Store("z", Recall("nowhere"))>>)),
      Store("after", Num(1))>>

\* body inside the construct: none, REPEAT, WHILE, FOR or a function
Inside(construct, body) ==
    CASE construct = 0 -> body
      [] construct = 1 -> <<Repeat(Num(2), body)>>
      [] construct = 2 -> <<While(Bin(Recall("i"), "Less", Num(2)), body)>>
      [] construct = 3 -> <<For("j", Num(2), Num(1), <<Num(0 - 1)>>, body)>>
      [] OTHER -> <<FunctionDefinition("f", <<>>, body), FunctionCall("f", <<>>, <<"r">>)>>

\* a TRY whose body ends with BREAK, CONTINUE, RETURN or an error (n),
\* inside the construct k
TryControlProgram(n, k) ==
    LET transfer == CASE n = 0 -> Break
                      [] n = 1 -> Continue
                      [] n = 2 -> Return(<<Num(7)>>)
                      [] OTHER -> ErrorStmt(n - 3)
    IN  <<Store("i", Num(0))>>
        \o Inside(k, <<Increment("i"),
                       TryCatch(<<If(Num(1), <<transfer>>, <<>>)>>,
                                <<Store("caught", Num(1))>>),
                       Store("after_try", Num(1))>>)
        \o <<Store("after", Num(1))>>

\* an error of kind k in the body of the construct n + 1
LoopErrorProgram(n, k) ==
    <<Store("i", Num(0)), ArrayCreate("arr"), FunctionDefinition("h", <<>>, <<>>)>>
    \o Inside(n + 1, <<Increment("i"), ErrorStmt(k), Store("after_err", Num(1))>>)
    \o <<Store("after", Num(1))>>

\* as LoopErrorProgram with the errors of kind 4 and 5, in a TRY when k >= 2
LoopErrorProgram2(n, k) ==
    LET stmts == Inside(n + 1, <<Increment("i"), ErrorStmt(4 + (k % 2)),
                                 Store("after_err", Num(1))>>)
    IN  <<Store("i", Num(0)), FunctionDefinition("h", <<>>, <<>>)>>
        \o (IF k < 2 THEN stmts ELSE <<TryCatch(stmts, <<Store("caught", Num(1))>>)>>)
        \o <<Store("after", Num(1))>>

\* FOR j from 0 to n with CONTINUE at j = k, in a loop that counts down
ContinueProgram(n, k) ==
    <<Store("c", Num(2)),
      While(Bin(Recall("c"), "Greater", Num(0)),
            <<Decrement("c"),
              For("j", Num(0), Num(n), <<>>,
                  <<If(Bin(Recall("j"), "Equal", Num(k)), <<Continue>>,
                       <<<<Increment("seen")>>>>),
                    Increment("full")>>),
              Import(IF k = 0 THEN "bad" ELSE "lib")>>)>>

\* g(x) calls itself down to depth n + 1 and ends there with BREAK,
\* CONTINUE, an undefined RECALL, a call with too few arguments or a call
\* of an unknown function
CallDepthProgram(n, k) ==
    LET ending == CASE k = 0 -> Break
                    [] k = 1 -> Continue
                    [] k = 2 -> ErrorStmt(0)
                    [] k = 3 -> FunctionCall("g", <<>>, <<>>)
                    [] OTHER -> ErrorStmt(4)
    IN  <<FunctionDefinition("g", <<"x">>,
            <<If(Bin(Recall("x"), "Greater", Num(0)),
                 <<FunctionCall("g", <<Bin(Recall("x"), "Minus", Num(1))>>, <<"r">>)>>,
                 <<<<ending>>>>),
              Store("after_call", Num(1))>>),
          FunctionCall("g", <<Num(n)>>, <<"r">>),
          Store("after", Num(1))>>

\* a statement that names `ghost`, which is in no namespace: the four
\* statements that go on without it, then the statements that need it
AbsentStmt(j) ==
    CASE j = 0 -> Increment("ghost")
      [] j = 1 -> Decrement("ghost")
      [] j = 2 -> StringTransform("e", "UPPERCASE", "ghost")
      [] j = 3 -> Export(<<"ghost", "x">>, "out")
      [] j = 4 -> Store("e", Recall("ghost"))
      [] j = 5 -> Calculate("e", Bin(Recall("ghost"), "Length", Num(0)))
      [] j = 6 -> Store("e", Bin(Recall("ghost"), "Size", Num(0)))
      [] j = 7 -> ArrayPush("ghost", Num(1))
      [] j = 8 -> ArrayPop("ghost", "e")
      [] j = 9 -> ArrayGet("ghost", Num(0), "e")
      [] j = 10 -> ArraySort("ghost", TRUE)
      [] j = 11 -> Shuffle("ghost")
      [] j = 12 -> FunctionCall("ghost", <<>>, <<"e">>)
      [] j = 13 -> ArrayFilter("ghost", Num(1), "out")
      [] j = 14 -> Find("ghost", Num(1), "e")
      [] j = 15 -> DictPut("ghost", "key", Num(1))
      [] j = 16 -> ArrayMap("ghost", Num(1), "out")
      [] j = 17 -> Count("ghost", Num(1), "e")
      [] j = 18 -> Fold("ghost", Num(0), Num(1), "e")
      [] j = 19 -> DictValues("ghost", "out")
      [] j = 20 -> If(Recall("ghost"), <<>>, <<>>)
      [] j = 21 -> While(Recall("ghost"), <<>>)
      [] j = 22 -> Repeat(Recall("ghost"), <<>>)
      [] j = 23 -> AssertStmt(Recall("ghost"), <<>>)
      [] OTHER -> StringTransform("e", "LOWERCASE", "ghost")

\* the statement number n * (MaxCount + 1) + k of AbsentStmt, after
\* statements that bind other names
AbsentProgram(n, k) ==
    <<IntentDeclaration("s", "hi"), Store("x", Num(2)), ArrayCreate("a"),
      DictCreate("d"), AbsentStmt(n * (MaxCount + 1) + k), Store("after", Num(1))>>

\* the per-element statement n (FILTER, MAP, FIND, FOLD, else COUNT) over
\* a = [1, 2, 3], with item, index and acc bound beforehand when k is odd;
\* its expression succeeds on every element (k < 2), divides by zero on
\* the element 2 (k in 2..3), or draws a number
ElementProgram(n, k) ==
    LET item == Recall("item")
        variant == k \div 2
        quotient == Bin(Num(6), "Slash", Bin(Num(2), "Minus", item))
        condition == CASE variant = 0 -> Bin(item, "Greater", Num(1))
                       [] variant = 1 -> quotient
                       [] OTHER -> Bin(RandomCall, "Less", item)
        expression == CASE variant = 0 ->
                            Bin(Bin(item, "Star", Num(10)), "Plus", Recall("index"))
                        [] variant = 1 -> quotient
                        [] OTHER -> Bin(item, "Plus", RandomCall)
        operation == CASE variant = 0 -> Bin(Recall("acc"), "Plus", item)
                       [] variant = 1 -> Bin(Recall("acc"), "Plus", quotient)
                       [] OTHER -> Bin(Recall("acc"), "Plus", RandomCall)
        stmt == CASE n = 0 -> ArrayFilter("a", condition, "out")
                  [] n = 1 -> ArrayMap("a", expression, "out")
                  [] n = 2 -> Find("a", condition, "r")
                  [] n = 3 -> Fold("a", Num(0), operation, "r")
                  [] OTHER -> Count("a", condition, "r")
    IN  <<ArrayCreate("a"), ArrayPush("a", Num(1)), ArrayPush("a", Num(2)),
          ArrayPush("a", Num(3)), Store("x", Num(5))>>
        \o When(k % 2 = 1, <<Store("item", Num(7)), Store("index", Num(8)),
                             Store("acc", Num(9))>>)
        \o <<stmt, Store("after", Num(1))>>

\* LENGTH (k even) or SIZE of a name that is an intent and an array
\* (k < 2) or neither, and is in Variables when n is odd, in Calculations
\* when n \div 2 is odd
LengthProgram(n, k) ==
    LET name == IF k < 2 THEN "s" ELSE "ghost"
    IN  <<IntentDeclaration("s", "hi"), ArrayCreate("s"), ArrayPush("s", Num(4)),
          ArrayPush("s", Num(5)), ArrayPush("s", Num(6))>>
        \o When(n % 2 = 1, <<Store(name, Num(9))>>)
        \o When((n \div 2) % 2 = 1, <<Calculate(name, Num(8))>>)
        \o <<Store("e", Bin(Recall(name), IF k % 2 = 0 THEN "Length" ELSE "Size",
                            Num(0))),
             Store("after", Num(1))>>

\* a dictionary of n keys, its VALUES, then a SHUFFLE of them (k odd), a
\* GET of the first (k >= 2) and a COUNT of those above 1 (k >= 3)
DictProgram(n, k) ==
    <<DictCreate("d")>>
    \o When(n >= 1, <<DictPut("d", "a", Num(1))>>)
    \o When(n >= 2, <<DictPut("d", "b", Num(2))>>)
    \o When(n >= 3, <<DictPut("d", "c", Num(3))>>)
    \o When(n >= 4, <<DictPut("d", "a", Num(4))>>)
    \o <<DictValues("d", "vals")>>
    \o When(k % 2 = 1, <<Shuffle("vals")>>)
    \o When(k >= 2, <<ArrayGet("vals", Num(0), "g")>>)
    \o When(k >= 3, <<Count("vals", Bin(Recall("item"), "Greater", Num(1)), "many")>>)

\* the step of the FOR of ForProgram: none (1 by default), 2, -1, 0, -2
ForStep(n) ==
    CASE n = 0 -> 1
      [] n = 1 -> 2
      [] n = 2 -> 0 - 1
      [] n = 3 -> 0
      [] OTHER -> 0 - 2

ForStart(n, k) == IF ForStep(n) < 0 THEN k ELSE 1

ForEnd(n, k) == IF ForStep(n) < 0 THEN 1 ELSE k

\* FOR v from ForStart to RECALL e STEP RECALL st, with a body that counts
\* its runs, writes v, e and st, and CONTINUEs in its second run
ForProgram(n, k) ==
    <<Store("e", Num(ForEnd(n, k))), Store("st", Num(ForStep(n))),
      For("v", Num(ForStart(n, k)), Recall("e"),
          IF n = 0 THEN <<>> ELSE <<Recall("st")>>,
          <<Increment("runs"), Store("v", Num(100)), Store("e", Num(0 - 9)),
            Store("st", Num(0)),
            If(Bin(Recall("runs"), "Equal", Num(2)), <<Continue>>, <<>>),
            Increment("full")>>),
      Store("after", Num(1))>>

\* the f64 2^22 + l / 2^32
Near(l) == [e |-> "Number", n |-> <<4194304, 0, l>>]

\* FOR v from 2^22 + 0, 4 or 8 / 2^32 TO 2^22 + 8 / 2^32 STEP (k + 1) / 2^32 with a body that
\* copies the counter; the numbers between 2^22 and 2^23 that an f64 can
\* hold are 4 / 2^32 apart
SmallStepProgram(n, k) ==
    <<For("v", Near(4 * (n % 3)), Near(8), <<[e |-> "Number", n |-> <<0, 0, k + 1>>]>>,
          <<Store("w", Recall("v"))>>),
      Store("after", Num(1))>>

\* f(a, b) is defined, r is 7, and f (ghost when k = 3) is called with n
\* arguments, the last of them 1 / 0 when k = 1 and RANDOM() when k = 2
ArityProgram(n, k) ==
    LET last == CASE k = 1 -> Bin(Num(1), "Slash", Num(0))
                  [] k = 2 -> RandomCall
                  [] OTHER -> Num(n)
        arguments == [i \in 1..n |-> IF i = n THEN last ELSE Num(i)]
    IN  <<FunctionDefinition("f", <<"a", "b">>,
                             <<Store("ran", Num(1)), Return(<<Recall("b")>>)>>),
          Store("r", Num(7)),
          FunctionCall(IF k = 3 THEN "ghost" ELSE "f", arguments, <<"r">>),
          Store("after", Num(1))>>

\* a = [5, 6], r = 7 and d = {a: 1}; then GET (k = 0), SET (k = 1) at the
\* index n - 1, FETCH (k = 2) of a key that is there, of one that is not,
\* and from a dictionary that does not exist, or GET and SET on an array
\* that does not exist (k = 3)
IndexProgram(n, k) ==
    LET index == Bin(Num(n), "Minus", Num(1))
    IN  <<ArrayCreate("a"), ArrayPush("a", Num(5)), ArrayPush("a", Num(6)),
          Store("r", Num(7)), DictCreate("d"), DictPut("d", "a", Num(1)),
          CASE k = 1 -> ArraySet("a", index, Num(9))
            [] k = 2 -> CASE n = 0 -> DictFetch("d", "a", "r")
                          [] n = 1 -> DictFetch("d", "zz", "r")
                          [] OTHER -> DictFetch("ghost", "a", "r")
            [] k = 3 -> IF n % 2 = 0 THEN ArrayGet("ghost", index, "r")
                        ELSE ArraySet("ghost", index, Num(9))
            [] OTHER -> ArrayGet("a", index, "r"),
          Store("after", Num(1))>>

\* x is bound in Variables (n odd), in Calculations (n \div 2 odd) and in
\* Intents (k odd), in every combination; then COMBINE, PRINT and RECALL of
\* x run at top level (k < 2) or in the body of f(x) called with 9
CombineProgram(n, k) ==
    LET inCall == (k \div 2) % 2 = 1
        body == <<Combine("c", <<"v=", Placeholder("x"), " ", Placeholder("q"),
                                 "${", "}">>),
                  PrintStmt(<<" v=", Placeholder("x"), Placeholder("x"), " ">>),
                  Store("rec", Recall("x"))>>
    IN  When(n % 2 = 1, <<Store("x", Num(7))>>)
        \o When((n \div 2) % 2 = 1,
                <<Calculate("x", [e |-> "Number", n |-> <<2, Limb \div 2, 0>>])>>)
        \o When(k % 2 = 1, <<IntentDeclaration("x", "hi")>>)
        \o (IF inCall
            THEN <<FunctionDefinition("f", <<"x">>, body),
                   FunctionCall("f", <<Num(9)>>, <<>>)>>
            ELSE body)
        \o <<Store("after", Num(1))>>

\* n statements, then IMPORT of a file that imports itself (k = 0), of one
\* of two files that import each other (k = 1, 2), or of a file that imports
\* nothing; then one more statement
CycleProgram(n, k) ==
    [i \in 1..n |-> Store("pre", Num(i))]
    \o <<Import(CASE k = 0 -> "self" [] k = 1 -> "ping" [] k = 2 -> "pong"
                  [] OTHER -> "lib"),
         Store("after", Num(1))>>

\* h() ends with BREAK (k = 0) or CONTINUE (k = 1) outside any loop of its
\* body, or with BREAK in a loop of its own (k = 3), and is called inside
\* the construct n; with k = 2 a RETURN stands in the place of the CALL
EscapeProgram(n, k) ==
    LET hbody == CASE k = 0 -> <<Increment("in_h"), Break, Store("h_after", Num(1))>>
                   [] k = 1 -> <<Increment("in_h"), Continue, Store("h_after", Num(1))>>
                   [] OTHER -> <<Repeat(Num(2), <<Increment("in_h"), Break>>),
                                 Store("h_after", Num(1))>>
        stmt == IF k = 2 THEN Return(<<Num(7)>>) ELSE FunctionCall("h", <<>>, <<"r">>)
    IN  <<Store("i", Num(0)), FunctionDefinition("h", <<>>, hbody)>>
        \o Inside(n, <<Increment("i"), stmt, Increment("after_stmt")>>)
        \o <<Store("after", Num(1))>>

\* f(x, p) is called with 9 and 8, x being 3 in Variables beforehand when n
\* is odd; its body writes x (STORE, INCREMENT, DECREMENT, FOR x, or as the
\* result of a call), recalls x, and calls g(y), whose body recalls x and,
\* when n \div 2 is odd, p
FrameProgram(n, k) ==
    LET write == CASE k = 0 -> Store("x", Num(50))
                   [] k = 1 -> Increment("x")
                   [] k = 2 -> Decrement("x")
                   [] k = 3 -> For("x", Num(5), Num(6), <<>>,
                                   <<Store("seen", Recall("x"))>>)
                   [] OTHER -> FunctionCall("w", <<>>, <<"x">>)
    IN  When(n % 2 = 1, <<Store("x", Num(3))>>)
        \o <<FunctionDefinition("w", <<>>, <<>>),
             FunctionDefinition("g", <<"y">>,
                 <<Store("inner", Recall("x"))>>
                 \o When((n \div 2) % 2 = 1, <<Store("inner_p", Recall("p"))>>)),
             FunctionDefinition("f", <<"x", "p">>,
                 <<Store("before", Recall("x")), write, Store("got", Recall("x")),
                   FunctionCall("g", <<Num(1)>>, <<>>),
                   Return(<<Recall("x")>>)>>),
             FunctionCall("f", <<Num(9), Num(8)>>, <<"r">>),
             Store("out", Recall("x"))>>

\* the step of RangeProgram(n, 2): 0, -1, then 2 - n
RangeStep(n) == IF n < 2 THEN 0 - n ELSE 2 - n

\* RANGE 1 n (k = 0), RANGE 0 n STEP 2 (k = 1), RANGE 2 n with a step that
\* is not positive (k = 2), RANGE over 2^22 .. 2^22 + 8 * 2^-32 with the
\* step (n + 1) * 2^-32 (k = 3), or RANGE 1 n STEP 3
RangeProgram(n, k) ==
    <<CASE k = 0 -> Range(Num(1), Num(n), <<>>, "r")
        [] k = 1 -> Range(Num(0), Num(n), <<Num(2)>>, "r")
        [] k = 2 -> Range(Num(2), Num(n), <<Num(RangeStep(n))>>, "r")
        [] k = 3 -> Range(Near(0), Near(8),
                          <<[e |-> "Number", n |-> <<0, 0, n + 1>>]>>, "r")
        [] OTHER -> Range(Num(1), Num(n), <<Num(3)>>, "r"),
      Store("after", Num(1))>>

\* the right operand of the AND or OR of LogicProgram
LogicRight(k) ==
    CASE k = 0 -> Bin(Num(1), "Slash", Num(0))
      [] k = 1 -> Recall("nowhere")
      [] k = 2 -> RandomCall
      [] OTHER -> Bin(RandomCall, "Plus", Num(k))

\* STORE s of left AND RANDOM() (n even) or left OR RANDOM() (n odd), then
\* STORE r of the same with the right operand of k; the left operand is
\* n \div 2: 0 decides an AND and 1 decides an OR
LogicProgram(n, k) ==
    <<Store("r", Num(7)),
      Store("s", Bin(Num(n \div 2), IF n % 2 = 0 THEN "And" ELSE "Or", RandomCall)),
      Store("r", Bin(Num(n \div 2), IF n % 2 = 0 THEN "And" ELSE "Or", LogicRight(k))),
      Store("after", Num(1))>>

ProgramIds ==
    {"logic", "range", "frame", "escape", "cycle", "combine", "index", "arity", "small_step", "for", "absent", "element", "length", "dict", "calculate", "recall", "repeat", "call", "recursion", "sort", "random", "try",
     "try_control", "loop_error", "loop_error2", "continue", "call_depth"}

Program(d) ==
    CASE d.id = "calculate" -> CalculateProgram(d.n, d.k)
      [] d.id = "logic" -> LogicProgram(d.n, d.k)
      [] d.id = "range" -> RangeProgram(d.n, d.k)
      [] d.id = "frame" -> FrameProgram(d.n, d.k)
      [] d.id = "escape" -> EscapeProgram(d.n, d.k)
      [] d.id = "cycle" -> CycleProgram(d.n, d.k)
      [] d.id = "combine" -> CombineProgram(d.n, d.k)
      [] d.id = "index" -> IndexProgram(d.n, d.k)
      [] d.id = "arity" -> ArityProgram(d.n, d.k)
      [] d.id = "small_step" -> SmallStepProgram(d.n, d.k)
      [] d.id = "for" -> ForProgram(d.n, d.k)
      [] d.id = "recall" -> RecallProgram(d.n, d.k)
      [] d.id = "repeat" -> RepeatProgram(d.n, d.k)
      [] d.id = "call" -> CallProgram(d.n, d.k)
      [] d.id = "recursion" -> RecursionProgram(d.n, d.k)
      [] d.id = "sort" -> SortProgram(d.n, d.k)
      [] d.id = "random" -> RandomProgram(d.n, d.k)
      [] d.id = "try" -> TryProgram(d.n, d.k)
      [] d.id = "try_control" -> TryControlProgram(d.n, d.k)
      [] d.id = "loop_error" -> LoopErrorProgram(d.n, d.k)
      [] d.id = "loop_error2" -> LoopErrorProgram2(d.n, d.k)
      [] d.id = "continue" -> ContinueProgram(d.n, d.k)
      [] d.id = "call_depth" -> CallDepthProgram(d.n, d.k)
      [] d.id = "absent" -> AbsentProgram(d.n, d.k)
      [] d.id = "dict" -> DictProgram(d.n, d.k)
      [] d.id = "length" -> LengthProgram(d.n, d.k)
      [] d.id = "element" -> ElementProgram(d.n, d.k)

Programs == [id : ProgramIds, n : 0..MaxCount, k : 0..MaxCount]

Sources == [id : SourceIds, n : {0}, k : {0}]

(***************************************************************************)
(* The state machine: Interpreter::new(), then main on a program text or   *)
(* execute on a statement list, then the steps of execute.                 *)
(***************************************************************************)
Init ==
    /\ pc = "start"
    /\ prog = [id |-> "none", n |-> 0, k |-> 0]
    /\ ctl = <<>>
    /\ signal = Run
    /\ outcome = [kind |-> "none", msg |-> <<>>]
    /\ intents = EmptyMap
    /\ calculations = EmptyMap
    /\ variables = EmptyMap
    /\ arrays = EmptyMap
    /\ functions = EmptyMap
    /\ call_stack = <<>>
    /\ random_seed = SeedOf(InitialSeed)
    /\ draws = 0
    /\ dicts = EmptyMap
    /\ first = <<>>
    /\ lexing = Lexer_new(<<>>)
    /\ returned = <<>>
    /\ written = EmptyMap
    /\ console = <<>>
    /\ parsing = <<>>

\* main: the text is tokenized and parsed; a parse error ends the run
\* before anything is executed
Main(src) ==
    /\ pc = "start"
    /\ prog' = src
    /\ \E statements \in {parse(Parser_new(Lexer_new(Source(src.id))))} :
           IF statements.ok
           THEN /\ pc' = "run"
                /\ ctl' = <<[kind |-> "top", stmts |-> statements.val]>>
                /\ outcome' = outcome
           ELSE /\ pc' = "done"
                /\ ctl' = ctl
                /\ outcome' = [kind |-> "parse", msg |-> statements.msg]
    /\ UNCHANGED <<signal, intents, calculations, variables, arrays, functions,
                   call_stack, random_seed, draws,
                   dicts, first, lexing, returned, written, console, parsing>>

\* interpreter.execute(statements) on a statement list
Execute(d) ==
    /\ pc = "start"
    /\ prog' = d
    /\ pc' = "run"
    /\ ctl' = <<[kind |-> "top", stmts |-> Program(d)]>>
    /\ UNCHANGED <<signal, outcome, intents, calculations, variables, arrays,
                   functions, call_stack, random_seed, draws,
                   dicts, first, lexing, returned, written, console, parsing>>

\* the outermost execute has returned
MainResult ==
    /\ pc = "run" /\ Len(ctl) = 1 /\ signal.st # "run"
    /\ pc' = "done"
    /\ outcome' = [kind |-> IF signal.st = "ok" THEN "ok" ELSE "runtime",
                   msg |-> signal.msg]
    /\ UNCHANGED <<prog, ctl, signal, intents, calculations, variables, arrays,
                   functions, call_stack, random_seed, draws,
                   dicts, first, lexing, returned, written, console, parsing>>

\* what an evaluator holds when its run has ended, and how the run ended
Snapshot ==
    [intents |-> intents, calculations |-> calculations, variables |-> variables,
     arrays |-> arrays, dicts |-> dicts, functions |-> functions,
     call_stack |-> call_stack, random_seed |-> random_seed, written |-> written,
     console |-> console, outcome |-> outcome]

\* a second evaluator, Interpreter::new(), executes the same statement
\* list, the files being as they were for the first
ExecuteAgain ==
    /\ pc = "done" /\ first = <<>> /\ prog.id \in ProgramIds
    /\ first' = <<Snapshot>>
    /\ pc' = "run"
    /\ ctl' = <<[kind |-> "top", stmts |-> Program(prog)]>>
    /\ signal' = Run
    /\ outcome' = [kind |-> "none", msg |-> <<>>]
    /\ intents' = EmptyMap
    /\ calculations' = EmptyMap
    /\ variables' = EmptyMap
    /\ arrays' = EmptyMap
    /\ dicts' = EmptyMap
    /\ functions' = EmptyMap
    /\ call_stack' = <<>>
    /\ random_seed' = SeedOf(InitialSeed)
    /\ draws' = 0
    /\ written' = EmptyMap
    /\ console' = <<>>
    /\ UNCHANGED <<prog, lexing, returned, parsing>>

Next ==
    \/ \E src \in Sources : Main(src)
    \/ \E d \in Programs : Execute(d)
    \/ MainResult
    \/ ExecuteAgain
    \/ ExecuteReturnsOk
    \/ ExecIntentDeclaration
    \/ ExecCalculate
    \/ ExecStore
    \/ ExecRepeat
    \/ RepeatReturn
    \/ ExecIf
    \/ BlockReturn
    \/ ExecWhile
    \/ WhileReturn
    \/ ExecIncrement
    \/ ExecDecrement
    \/ ExecFor
    \/ ForReturn
    \/ ExecAssert
    \/ ExecTryCatch
    \/ TryReturn
    \/ ExecBreak
    \/ ExecContinue
    \/ ExecArrayCreate
    \/ ExecArrayPush
    \/ ExecArrayPop
    \/ ExecArrayGet
    \/ ExecArraySort
    \/ ExecShuffle
    \/ ExecImport
    \/ ExecFunctionDefinition
    \/ ExecFunctionCall
    \/ CallReturn
    \/ ExecReturn
    \/ ExecStringTransform
    \/ ExecExport
    \/ ExecArrayFilter
    \/ ExecArrayMap
    \/ ExecFind
    \/ ExecCount
    \/ ExecFold
    \/ ExecDictCreate
    \/ ExecDictPut
    \/ ExecDictValues
    \/ ExecRange
    \/ RangeIteration
    \/ RangeExit
    \/ ExecCombine
    \/ ExecPrint
    \/ ExecArraySet
    \/ ExecDictFetch

Spec == Init /\ [][Next]_vars

(***************************************************************************)
(* The lexer on its own: a Lexer over any short text of the characters     *)
(* below, and a caller that calls next_token again and again, also after   *)
(* the end of the input.                                                   *)
(***************************************************************************)
MaxLen == 3

LexChars == {" ", "\n", "#", "a", "1", ".", "\"", "@", "!", "="}

LexInputs == UNION {[1..n -> LexChars] : n \in 0..MaxLen}

LexInit ==
    /\ pc = "start"
    /\ prog = [id |-> "none", n |-> 0, k |-> 0]
    /\ ctl = <<>>
    /\ signal = Run
    /\ outcome = [kind |-> "none", msg |-> <<>>]
    /\ intents = EmptyMap
    /\ calculations = EmptyMap
    /\ variables = EmptyMap
    /\ arrays = EmptyMap
    /\ functions = EmptyMap
    /\ call_stack = <<>>
    /\ random_seed = SeedOf(InitialSeed)
    /\ draws = 0
    /\ dicts = EmptyMap
    /\ first = <<>>
    /\ written = EmptyMap
    /\ console = <<>>
    /\ parsing = <<>>
    /\ \E input \in LexInputs : lexing = Lexer_new(input)
    /\ returned = <<>>

\* one call of lexer.next_token()
NextToken ==
    /\ Len(returned) < MaxLen + 2
    /\ \E r \in {next_token(lexing)} :
          /\ lexing' = r.lx
          /\ returned' = Append(returned, r.tok)
    /\ UNCHANGED <<pc, prog, ctl, signal, outcome, intents, calculations, variables,
                   arrays, functions, call_stack, random_seed, draws, dicts, first,
                   written, console, parsing>>

LexNext == NextToken

LexSpec == LexInit /\ [][LexNext]_vars

(***************************************************************************)
(* The expression parser on its own: main is given the text                *)
(* FUNCTION f() DO RETURN 1 op 2 op 3 .. END for every sequence of up to   *)
(* MaxOps operators; executing it stores the tree of the expression in     *)
(* Functions[f].                                                           *)
(***************************************************************************)
MaxOps == 3

\* the operators tried, and how each is written
ExprOperators ==
    <<[t |-> "Or", text |-> <<"O", "R">>],
      [t |-> "And", text |-> <<"A", "N", "D">>],
      [t |-> "Plus", text |-> <<"+">>],
      [t |-> "Minus", text |-> <<"-">>],
      [t |-> "Less", text |-> <<"<">>],
      [t |-> "Equal", text |-> <<"=", "=">>],
      [t |-> "Star", text |-> <<"*">>],
      [t |-> "Slash", text |-> <<"/">>],
      [t |-> "Power", text |-> <<"*", "*">>]>>

RECURSIVE Pow(_, _)
Pow(b, e) == IF e = 0 THEN 1 ELSE b * Pow(b, e - 1)

\* the i-th operator of the expression numbered code
OperatorAt(code, i) ==
    ExprOperators[((code \div Pow(Len(ExprOperators), i - 1)) % Len(ExprOperators)) + 1]

\* the expression numbered code, of k operators: 1 op 2 op .. k + 1
RECURSIVE ExprText(_, _)
ExprText(code, k) ==
    IF k = 0 THEN <<"1">>
    ELSE ExprText(code, k - 1) \o <<" ">> \o OperatorAt(code, k).text
         \o <<" ", DigitChars[k + 2]>>

FunctionText(code, k) ==
    <<"F", "U", "N", "C", "T", "I", "O", "N", " ", "f", "(", ")", " ", "D", "O", " ",
      "R", "E", "T", "U", "R", "N", " ">> \o ExprText(code, k)
    \o <<" ", "E", "N", "D">>

Expressions ==
    UNION {[id : {"expression"}, n : 0..(Pow(Len(ExprOperators), k) - 1), k : {k}] :
             k \in 1..MaxOps}

ExprInit ==
    /\ pc = "start"
    /\ prog \in Expressions
    /\ ctl = <<>>
    /\ signal = Run
    /\ outcome = [kind |-> "none", msg |-> <<>>]
    /\ intents = EmptyMap
    /\ calculations = EmptyMap
    /\ variables = EmptyMap
    /\ arrays = EmptyMap
    /\ functions = EmptyMap
    /\ call_stack = <<>>
    /\ random_seed = SeedOf(InitialSeed)
    /\ draws = 0
    /\ dicts = EmptyMap
    /\ first = <<>>
    /\ written = EmptyMap
    /\ console = <<>>
    /\ parsing = <<>>
    /\ lexing = Lexer_new(FunctionText(prog.n, prog.k))
    /\ returned = <<>>

\* main on the text the lexer was made for
MainOnText ==
    /\ pc = "start" /\ prog.id = "expression"
    /\ \E statements \in {parse(Parser_new(lexing))} :
           IF statements.ok
           THEN /\ pc' = "run"
                /\ ctl' = <<[kind |-> "top", stmts |-> statements.val]>>
                /\ outcome' = outcome
           ELSE /\ pc' = "done"
                /\ ctl' = ctl
                /\ outcome' = [kind |-> "parse", msg |-> statements.msg]
    /\ UNCHANGED <<prog, signal, intents, calculations, variables, arrays, functions,
                   call_stack, random_seed, draws, dicts, first, lexing, returned,
                   written, console, parsing>>

ExprNext ==
    \/ MainOnText
    \/ ExecFunctionDefinition
    \/ ExecuteReturnsOk
    \/ MainResult

ExprSpec == ExprInit /\ [][ExprNext]_vars

(***************************************************************************)
(* Parser::parse alone, one iteration of its loop at a time, on the texts  *)
(* made of up to MaxWords of these                                         *)
(***************************************************************************)
MaxWords == 3

ParseWords ==
    <<
      <<"S", "T", "O", "R", "E", " ", "x", " ", "1">>,
      <<"R", "E", "P", "E", "A", "T", " ", "2", " ", "T", "I", "M", "E", "S", " ",
        "D", "O">>,
      <<"I", "F", " ", "1", " ", "T", "H", "E", "N">>,
      <<"W", "H", "I", "L", "E", " ", "0", " ", "D", "O">>,
      <<"F", "O", "R", " ", "i", " ", "1", " ", "T", "O", " ", "2", " ", "D", "O">>,
      <<"T", "R", "Y">>,
      <<"C", "A", "T", "C", "H">>,
      <<"F", "U", "N", "C", "T", "I", "O", "N", " ", "f", "(", "a", ")", " ", "D",
        "O">>,
      <<"S", "W", "I", "T", "C", "H", " ", "1", " ", "C", "A", "S", "E", " ", "1",
        " ", "D", "O">>,
      <<"E", "N", "D">>,
      <<"C", "A", "L", "L", " ", "f", "(", "1">>>>

\* the words that begin with the keyword kw
WordsOf(kw) ==
    {i \in 1..Len(ParseWords) :
        /\ Len(ParseWords[i]) >= Len(kw)
        /\ SubSeq(ParseWords[i], 1, Len(kw)) = kw
        /\ (Len(ParseWords[i]) = Len(kw) \/ ParseWords[i][Len(kw) + 1] = " ")}

\* the words that open a compound statement
Openers ==
    UNION {WordsOf(kw) : kw \in {<<"R", "E", "P", "E", "A", "T">>, <<"I", "F">>,
                                  <<"W", "H", "I", "L", "E">>, <<"F", "O", "R">>,
                                  <<"T", "R", "Y">>,
                                  <<"F", "U", "N", "C", "T", "I", "O", "N">>,
                                  <<"S", "W", "I", "T", "C", "H">>}}

RECURSIVE WordsText(_)
WordsText(ws) ==
    IF ws = <<>> THEN <<>>
    ELSE ParseWords[Head(ws)] \o <<"\n">> \o WordsText(Tail(ws))

WordLists == UNION {[1..n -> 1..Len(ParseWords)] : n \in 0..MaxWords}

\* parse() is entered: `let mut statements = Vec::new()`
ParseInit ==
    /\ pc = "start"
    /\ \E ws \in WordLists :
          /\ prog = [id |-> "words", n |-> Len(ws), k |-> 0, words |-> ws]
          /\ lexing = Lexer_new(WordsText(ws))
    /\ parsing = <<[parser |-> Parser_new(lexing), statements |-> <<>>,
                    result |-> <<>>]>>
    /\ ctl = <<>>
    /\ signal = Run
    /\ outcome = [kind |-> "none", msg |-> <<>>]
    /\ intents = EmptyMap
    /\ calculations = EmptyMap
    /\ variables = EmptyMap
    /\ arrays = EmptyMap
    /\ functions = EmptyMap
    /\ call_stack = <<>>
    /\ random_seed = SeedOf(InitialSeed)
    /\ draws = 0
    /\ dicts = EmptyMap
    /\ first = <<>>
    /\ written = EmptyMap
    /\ console = <<>>
    /\ returned = <<>>

\* one iteration of `while self.current_token != Token::EOF { match .. }`
ParseIteration ==
    /\ parsing # <<>> /\ parsing[1].result = <<>>
    /\ parsing[1].parser.current_token.t # "EOF"
    /\ LET p == parsing[1].parser
       IN  \E r \in {IF p.current_token.t \in LoopOf("parse").allowed
                     THEN ParseStatement(p)
                     ELSE PErr(<<"Unexpected token: ">> \o Debug(p.current_token))} :
              parsing' = IF r.ok
                         THEN <<[parsing[1] EXCEPT
                                   !.parser = r.p,
                                   !.statements = Append(@, r.val)]>>
                         ELSE <<[parsing[1] EXCEPT !.result = <<PErr(r.msg)>>]>>
    /\ UNCHANGED <<pc, prog, ctl, signal, outcome, intents, calculations, variables,
                   arrays, functions, call_stack, random_seed, draws, dicts, first,
                   lexing, returned, written, console>>

\* the loop is left at EOF: Ok(statements)
ParseReturnsOk ==
    /\ parsing # <<>> /\ parsing[1].result = <<>>
    /\ parsing[1].parser.current_token.t = "EOF"
    /\ parsing' = <<[parsing[1] EXCEPT
                       !.result = <<POk(parsing[1].statements, parsing[1].parser)>>]>>
    /\ UNCHANGED <<pc, prog, ctl, signal, outcome, intents, calculations, variables,
                   arrays, functions, call_stack, random_seed, draws, dicts, first,
                   lexing, returned, written, console>>

ParseNext ==
    \/ ParseIteration
    \/ ParseReturnsOk

\* parse() is a sequential loop: an iteration that can run does run
ParseSpec == ParseInit /\ [][ParseNext]_vars /\ WF_vars(ParseNext)

(***************************************************************************)
(* Properties.                                                             *)
(***************************************************************************)
\* the run of the statement list `id` with parameters n, k has ended
Finished(id, n, k) == pc = "done" /\ prog = [id |-> id, n |-> n, k |-> k]

\* the value of a variable that must be bound
Var(name) == IF Has(variables, name) THEN <<variables[name]>> ELSE <<>>

\* C1: when the evaluation of the expression of a CALCULATE reaches a
\* division or a modulo whose right operand is 0, execute returns an error
\* and Calculations is left exactly as it was
CalculateDivisionByZero ==
    [][(At("Calculate") /\ Eval(Cur.expression).dz)
         => /\ signal'.st = "err"
            /\ signal'.msg \in {<<"Division by zero">>, <<"Modulo by zero">>}
            /\ ctl' = ctl
            /\ calculations' = calculations]_vars

\* CALCULATE q RANDOM() + 6 % (q - 7) with q = 7 has failed: q is still 7
CalculateDivisionByZeroReached ==
    /\ prog = [id |-> "calculate", n |-> 0, k |-> 1]
    /\ pc = "run" /\ Len(ctl) = 1 /\ Cur.op = "Calculate"
    /\ signal = Err(<<"Modulo by zero">>)
    /\ draws = 1
    /\ calculations = Put(EmptyMap, "q", N(7))

\* C2: RECALL n is the value of n in the last frame of the call stack,
\* else in Variables, else in Calculations, else the error that n is not
\* found; Intents is not consulted
RecallResolution ==
    [][(At("Store") /\ Cur.value.e = "Recall")
         => LET n == Cur.value.name
                frame == IF call_stack = <<>> THEN EmptyMap
                         ELSE call_stack[Len(call_stack)]
                stored(v) == /\ variables' = Put(variables, Cur.name, v)
                             /\ signal' = Run
                             /\ ctl' = Advance
            IN  IF n \in DOMAIN frame THEN stored(frame[n])
                ELSE IF n \in DOMAIN variables THEN stored(variables[n])
                ELSE IF n \in DOMAIN calculations THEN stored(calculations[n])
                ELSE /\ signal' = Err(<<"Variable '", n, "' not found">>)
                     /\ variables' = variables
                     /\ ctl' = ctl]_vars

\* x is 3 in the frame, 1 in Variables and 2 in Calculations, and
\* STORE got RECALL x in the function has stored 3
RecallResolutionReached ==
    /\ prog = [id |-> "recall", n |-> 3, k |-> 0]
    /\ pc = "run" /\ call_stack # <<>>
    /\ call_stack[Len(call_stack)] = Put(EmptyMap, "x", N(3))
    /\ Var("x") = <<N(1)>>
    /\ calculations = Put(EmptyMap, "x", N(2))
    /\ Var("got") = <<N(3)>>

\* the REPEAT activations: the iteration being executed and the count
RepeatFrames == {i \in 1..Len(ctl) : ctl[i].kind = "repeat"}

\* the number of iterations of REPEAT n with a BREAK in iteration k
Iterations(n, k) == IF 1 <= k /\ k <= n THEN k ELSE n

\* C3: REPEAT n, the count evaluated once before the first iteration,
\* executes an error-free body exactly n times; a BREAK in iteration k ends
\* the loop after exactly k entries of the body, without an error, and
\* execution continues after the loop
RepeatCount ==
    /\ [](\A i \in RepeatFrames :
            /\ 1 <= ctl[i].entered /\ ctl[i].entered <= ctl[i].times
            /\ ctl[i].body = ctl[i - 1].stmts[1].body)
    /\ [][Returned("repeat")
            => IF signal = Err(BreakMsg)
               THEN ctl' = DropAndAdvance /\ signal' = Run
               ELSE IF signal.st = "ok" /\ Top.entered < Top.times
               THEN /\ Len(ctl') = Len(ctl)
                    /\ ctl'[Len(ctl)].entered = Top.entered + 1
                    /\ ctl'[Len(ctl)].times = Top.times
                    /\ ctl'[Len(ctl)].stmts = Top.body
                    /\ signal' = Run
               ELSE IF signal.st = "ok"
               THEN ctl' = DropAndAdvance /\ signal' = Run
               ELSE TRUE]_vars
    /\ []((pc = "done" /\ prog.id = "repeat")
            => /\ outcome.kind = "ok"
               /\ Var("i") = <<N(Iterations(prog.n, prog.k))>>
               /\ Var("n") = <<N(prog.n + Iterations(prog.n, prog.k))>>
               /\ Var("after") = <<N(1)>>)

\* REPEAT 3 with BREAK in iteration 2: the body was entered twice and the
\* statement after the loop was executed
RepeatCountReached ==
    /\ Finished("repeat", 3, 2)
    /\ Var("i") = <<N(2)>>
    /\ Var("full") = <<N(1)>>
    /\ Var("after") = <<N(1)>>

\* C4: the text FUNCTION add(x + y) DO RETURN x + y END followed by
\* CALL add(2 + 3) result goes through the lexer, the parser and the
\* interpreter without an error: add is defined with the two parameters x
\* and y and Variables[result] = 5
AddTextYieldsFive ==
    (pc = "done" /\ prog.id = "text_add")
      => /\ outcome.kind = "ok"
         /\ Has(functions, "add")
         /\ functions["add"].parameters = <<"x", "y">>
         /\ Var("result") = <<N(5)>>

\* the result of f in the statement list "call": a - b, 0.0 on fall-through
\* and on RETURN without a value, or the first draw
CallResult(k) ==
    IF k = 0 THEN N(0 - 1) ELSE IF k \in {1, 2} THEN N(0) ELSE <<0, 1337, 7236>>

NotFound(name) == [kind |-> "runtime", msg |-> <<"Variable '", name, "' not found">>]

\* C5: a call of a defined function with as many arguments as parameters
\* pushes a fresh frame that binds the i-th parameter to the value of the
\* i-th argument and executes the body; the result variable, when given,
\* becomes the value of the executed RETURN, or 0.0 when the body falls
\* through; after the call the frame is gone and RECALL of a parameter fails
\* unless the name is in Variables or Calculations
CallBindsAndReturns ==
    /\ [][(At("FunctionCall") /\ Has(functions, Cur.function_name))
            => LET f == functions[Cur.function_name]
                   a == EvalArgs(Self, Cur.arguments, Rng, <<>>)
                   last(i) == \A j \in (i + 1)..Len(f.parameters) :
                                 f.parameters[j] # f.parameters[i]
               IN  (a.ok /\ Len(a.vals) = Len(f.parameters))
                     => /\ Len(call_stack') = Len(call_stack) + 1
                        /\ SubSeq(call_stack', 1, Len(call_stack)) = call_stack
                        /\ DOMAIN call_stack'[Len(call_stack')]
                             = {f.parameters[i] : i \in 1..Len(f.parameters)}
                        /\ \A i \in 1..Len(f.parameters) :
                             last(i) => call_stack'[Len(call_stack')][f.parameters[i]]
                                          = a.vals[i]
                        /\ Len(ctl') = Len(ctl) + 1
                        /\ ctl'[Len(ctl')].stmts = f.body
                        /\ signal' = Run]_vars
    /\ [][Returned("call")
            => /\ call_stack' = SubSeq(call_stack, 1, Len(call_stack) - 1)
               /\ Len(call_stack') = Top.depth
               /\ signal.st = "ok"
                    => /\ ctl' = DropAndAdvance /\ signal' = Run
                       /\ Top.result_name # <<>>
                            => variables'[Top.result_name[1]] = N(0)]_vars
    /\ []((pc = "done" /\ prog.id = "call")
            => /\ call_stack = <<>>
               /\ ~Has(variables, "dead")
               /\ IF prog.n = 0 /\ prog.k \in {0, 2}
                  THEN outcome = NotFound("b") /\ Var("r") = <<>>
                  ELSE /\ outcome = NotFound("a")
                       /\ Var("r") = IF prog.n < 3 THEN <<CallResult(prog.k)>>
                                     ELSE <<>>)
    /\ []((pc = "done" /\ prog.id = "recursion")
            => /\ outcome.kind = "ok" /\ call_stack = <<>>
               /\ Var("r") = <<N(prog.n + prog.k)>>)
    /\ []((pc = "done" /\ prog.id = "recall")
            => LET global == IF prog.n % 2 = 1 THEN <<N(1)>>
                             ELSE IF (prog.n \div 2) % 2 = 1 THEN <<N(2)>>
                             ELSE <<>>
                   inside == IF prog.k = 0 THEN <<N(3)>> ELSE global
               IN  /\ call_stack = <<>>
                   /\ Var("got") = inside
                   /\ Var("r") = inside
                   /\ Var("out") = IF inside = <<>> THEN <<>> ELSE global
                   /\ outcome.kind = IF global = <<>> THEN "runtime" ELSE "ok"
                   /\ global = <<>> => outcome = NotFound("x"))

\* f(a, b) called with 1 and 2 has returned a - b into r, and RECALL a
\* after the call has failed
CallBindsAndReturnsReached ==
    /\ Finished("call", 1, 0)
    /\ Var("r") = <<N(0 - 1)>>
    /\ call_stack = <<>>
    /\ outcome = NotFound("a")

\* the POP of a descending sort of 1, 2, 3 has been executed
AfterPop ==
    \/ pc = "done" /\ prog.id = "text_sort"
    \/ prog.id = "sort" /\ prog.n = 0 /\ At("ArrayGet")

BeforePop == prog.id = "text_sort" \/ (prog.id = "sort" /\ prog.n = 0)

\* C6 as stated: after ARRAY a, PUSH a 1, PUSH a 2, PUSH a 3, SORT a DESC
\* the array is [3, 2, 1], and POP a r binds r to 3 and leaves a with
\* length 2
SortThenPopYieldsFirst ==
    /\ (BeforePop /\ At("ArrayPop")) => arrays["a"] = <<N(3), N(2), N(1)>>
    /\ AfterPop => Var("r") = <<N(3)>> /\ Len(arrays["a"]) = 2

\* C6 amended: after ARRAY a, PUSH a 1, PUSH a 2, PUSH a 3, SORT a DESC the
\* array is [3, 2, 1], and POP a r removes the last element: it binds r to
\* 1 and leaves a = [3, 2], of length 2
SortThenPopYieldsLast ==
    /\ (BeforePop /\ At("ArrayPop")) => arrays["a"] = <<N(3), N(2), N(1)>>
    /\ AfterPop => Var("r") = <<N(1)>> /\ arrays["a"] = <<N(3), N(2)>>

\* the text ARRAY a .. SORT a DESC POP a r has run: r is 1 and a is [3, 2]
SortThenPopReached ==
    /\ pc = "done" /\ prog.id = "text_sort" /\ outcome.kind = "ok"
    /\ Var("r") = <<N(1)>>
    /\ arrays["a"] = <<N(3), N(2)>>

\* the seeds 12345, lcg(12345), lcg(lcg(12345)), .. of the recurrence
\* s -> (1664525 * s + 1013904223) mod 2^32, as limbs <<s \div 2^16, s % 2^16>>
LcgSeeds ==
    <<<<0, 12345>>, <<1337, 7236>>, <<1084, 31443>>, <<35596, 16918>>,
      <<41609, 4733>>, <<59639, 45496>>, <<7370, 18871>>, <<32498, 39850>>,
      <<35936, 38657>>, <<39066, 1132>>, <<51344, 13531>>, <<2611, 58494>>,
      <<48745, 49605>>, <<63295, 18528>>, <<4827, 57407>>, <<45849, 28818>>,
      <<30165, 54985>>>>

\* the number of RANDOM() nodes of an expression
RECURSIVE RandomNodes(_)
RandomNodes(expr) ==
    IF expr.e # "BinaryOp" THEN 0
    ELSE RandomNodes(expr.left) + RandomNodes(expr.right)
         + (IF expr.operator = "Random" THEN 1 ELSE 0)

\* C7: from the seed 12345 of a newly made evaluator every evaluation of
\* RANDOM() and every per-element draw of SHUFFLE replaces the seed s by
\* (1664525 * s + 1013904223) mod 2^32 exactly once and yields s'/2^32;
\* nothing else writes the seed, so the seed stays in [0, 2^32) and the
\* k-th draw depends on k only
SeedFollowsLcg ==
    /\ [](/\ draws < Len(LcgSeeds)
          /\ random_seed = LcgSeeds[draws + 1]
          /\ random_seed[1] \in 0..65535 /\ random_seed[2] \in 0..65535)
    /\ [][IF first' # first
          THEN random_seed' = SeedOf(InitialSeed) /\ draws' = 0
          ELSE
          /\ draws' >= draws
          /\ random_seed' # random_seed => draws' > draws
          /\ (At("Store") /\ Eval(Cur.value).ok)
               => draws' = draws + RandomNodes(Cur.value)
          /\ (At("Store") /\ Cur.value = Bin(Num(0), "Random", Num(0)))
               => variables'[Cur.name] = <<0>> \o LcgSeeds[draws + 2]
          /\ (At("Shuffle") /\ Has(arrays, Cur.array_name))
               => draws' = draws + Len(arrays[Cur.array_name])
          /\ draws' > draws
               => \/ At("Shuffle")
                  \/ \E op \in {"Store", "Calculate", "Return", "FunctionCall",
                                 "ArrayFilter", "ArrayMap", "Find", "Count", "Fold"} :
                       At(op)]_vars

\* three draws in a loop, three in a SHUFFLE of three elements and three
\* more: the seed is the ninth of the recurrence and v the ninth draw
SeedFollowsLcgReached ==
    /\ Finished("random", 3, 3)
    /\ draws = 9
    /\ random_seed = <<39066, 1132>>
    /\ Var("v") = <<<<0, 39066, 1132>>>>

\* the innermost activation, a try body, is replaced by the catch body
CatchEntered ==
    /\ Len(ctl') = Len(ctl)
    /\ ctl'[Len(ctl)] = Block(Top.catch_body)
    /\ SubSeq(ctl', 1, Len(ctl) - 1) = SubSeq(ctl, 1, Len(ctl) - 1)
    /\ signal' = Run

\* the TRY statement completes without the catch body
CatchSkipped == ctl' = DropAndAdvance /\ signal' = Run

\* C8: when the try body fails with a runtime error the catch body is
\* executed, the TRY completes without error if the catch body does, and
\* the statements after the TRY are executed; when the try body completes
\* normally the catch body is not executed
TryCatchesErrors ==
    /\ [][Returned("try")
            => IF signal.st = "err" /\ Genuine(signal.msg) THEN CatchEntered
               ELSE IF signal.st = "ok" THEN CatchSkipped
               ELSE TRUE]_vars
    /\ []((pc = "done" /\ prog.id = "try")
            => /\ Var("t") = <<N(1)>>
               /\ IF prog.n = 0
                  THEN /\ Var("caught") = <<N(0 - 1)>>
                       /\ Var("t2") = <<>>
                       /\ IF prog.k = 1
                          THEN outcome = NotFound("nowhere") /\ Var("after") = <<>>
                          ELSE outcome.kind = "ok" /\ Var("after") = <<N(1)>>
                  ELSE /\ Var("caught") = <<>>
                       /\ Var("t2") = <<N(2)>>
                       /\ outcome.kind = "ok"
                       /\ Var("after") = <<N(1)>>)

\* the try body divided by zero: the catch body stored -1, the rest of the
\* try body was skipped and the statement after the TRY was executed
TryCatchesErrorsReached ==
    /\ Finished("try", 0, 0)
    /\ outcome.kind = "ok"
    /\ Var("caught") = <<N(0 - 1)>>
    /\ Var("t2") = <<>>
    /\ Var("after") = <<N(1)>>

\* C9: the catch body is executed only when the try body ends with a
\* genuine runtime error; when it ends with BREAK, CONTINUE or RETURN the
\* catch body is not executed and the transfer reaches the enclosing loop
\* or call site
CatchOnlyGenuineErrors ==
    [][(Returned("try") /\ signal.st = "err" /\ ~Genuine(signal.msg))
         => ctl' = Front(ctl) /\ signal' = signal]_vars

\* the message of the failure of ErrorStmt(kind)
ErrorMessage(kind) ==
    CASE kind = 0 -> <<"Variable '", "nowhere", "' not found">>
      [] kind = 1 -> <<"Division by zero">>
      [] kind = 2 -> <<"Array index ", "5", " out of bounds for array '", "arr", "'">>
      [] kind = 3 -> <<"Assertion failed: ", "hello">>
      [] kind = 4 -> <<"Function '", "h", "' expects ", "0", " parameters, got ", "1">>
      [] OTHER -> <<"Failed to read file '", "missing", "': ",
                    "No such file or directory (os error 2)">>

\* C10: a genuine runtime error raised in the body of a REPEAT, WHILE or
\* FOR or of a function is never taken for BREAK, CONTINUE or RETURN: the
\* loop or call stops, the rest of the body and the statements after it are
\* skipped, and the same error propagates to the outermost execute unless an
\* enclosing TRY catches it
ErrorsPropagate ==
    /\ [][(pc = "run" /\ signal.st = "err" /\ Genuine(signal.msg))
            => IF Len(ctl) = 1
               THEN pc' = "done" /\ outcome' = [kind |-> "runtime", msg |-> signal.msg]
               ELSE IF Top.kind = "try" THEN CatchEntered
               ELSE ctl' = Front(ctl) /\ signal' = signal]_vars
    /\ []((pc = "done" /\ prog.id = "loop_error")
            => /\ outcome = [kind |-> "runtime", msg |-> ErrorMessage(prog.k)]
               /\ Var("i") = <<N(1)>>
               /\ Var("after_err") = <<>>
               /\ Var("after") = <<>>
               /\ call_stack = <<>>)
    /\ []((pc = "done" /\ prog.id = "loop_error2")
            => /\ Var("i") = <<N(1)>>
               /\ Var("after_err") = <<>>
               /\ call_stack = <<>>
               /\ IF prog.k < 2
                  THEN /\ outcome = [kind |-> "runtime",
                                     msg |-> ErrorMessage(4 + (prog.k % 2))]
                       /\ Var("after") = <<>>
                  ELSE /\ outcome.kind = "ok"
                       /\ Var("caught") = <<N(1)>>
                       /\ Var("after") = <<N(1)>>)

\* a division by zero in the first iteration of a WHILE has ended the run
\* with that error; nothing after it was executed
ErrorsPropagateReached ==
    /\ Finished("loop_error", 1, 1)
    /\ outcome = [kind |-> "runtime", msg |-> <<"Division by zero">>]
    /\ Var("i") = <<N(1)>>
    /\ Var("after_err") = <<>>
    /\ Var("after") = <<>>

\* the number of activations in ctl that a FunctionCall made
RECURSIVE CallFrames(_)
CallFrames(c) ==
    IF c = <<>> THEN 0
    ELSE CallFrames(Tail(c)) + (IF Head(c).kind = "call" THEN 1 ELSE 0)

\* the message a run of CallDepthProgram ends with
CallDepthMessage(k) ==
    CASE k = 0 -> BreakMsg
      [] k = 1 -> ContinueMsg
      [] k = 2 -> <<"Variable '", "nowhere", "' not found">>
      [] k = 3 -> <<"Function '", "g", "' expects ", "1", " parameters, got ", "0">>
      [] OTHER -> <<"Function '", "h", "' not found">>

\* C11: a FunctionCall leaves the call stack at the depth it found it,
\* however it ends: the stack holds one frame per call in progress, a call
\* that fails before its body starts pushes nothing, the return of a body
\* (Ok, RETURN, an error, BREAK or CONTINUE) brings the stack back to the
\* depth before the call, and the stack is empty when the outermost
\* execute has returned
CallStackBalanced ==
    /\ [](pc = "run" => Len(call_stack) = CallFrames(ctl))
    /\ []((pc = "done" \/ (pc = "run" /\ Len(ctl) = 1 /\ signal.st # "run"))
            => call_stack = <<>>)
    /\ [][(At("FunctionCall") /\ signal'.st = "err") => call_stack' = call_stack]_vars
    /\ [][Returned("call")
            => /\ Len(call_stack') = Top.depth
               /\ call_stack' = SubSeq(call_stack, 1, Top.depth)]_vars
    /\ [](\A n \in 0..MaxCount, k \in 0..MaxCount :
            Finished("call_depth", n, k)
              => /\ outcome = [kind |-> "runtime", msg |-> CallDepthMessage(k)]
                 /\ ~Has(variables, "after") /\ ~Has(variables, "after_call"))

\* CONTINUE at depth 3 has ended three nested calls and the run
CallStackBalancedReached ==
    /\ Finished("call_depth", 2, 1)
    /\ outcome.msg = ContinueMsg
    /\ call_stack = <<>>
    /\ Has(functions, "g")

\* a statement is about to be executed
Executing == pc = "run" /\ signal.st = "run" /\ Top.stmts # <<>>

\* RECALL finds the name in none of the frame of the call, Variables and
\* Calculations
Unbound(name) ==
    /\ ~(call_stack # <<>> /\ Has(Last(call_stack), name))
    /\ ~Has(variables, name)
    /\ ~Has(calculations, name)

\* the expression recalls a name that is unbound, or takes the LENGTH or
\* SIZE of a name that is no intent or no array
RECURSIVE Misses(_)
Misses(expr) ==
    /\ expr.e # "Number"
    /\ IF expr.e = "Recall" THEN Unbound(expr.name)
       ELSE \/ Misses(expr.left)
            \/ Misses(expr.right)
            \/ /\ expr.operator = "Length" /\ expr.left.e = "Recall"
               /\ ~Has(intents, expr.left.name)
            \/ /\ expr.operator = "Size" /\ expr.left.e = "Recall"
               /\ ~Has(arrays, expr.left.name)

\* the statement references a name that exists in none of the namespaces
\* it probes
Absent(stmt) ==
    LET op == stmt.op
    IN  CASE op \in {"Increment", "Decrement"} -> ~Has(variables, stmt.variable)
          [] op = "StringTransform" -> ~Has(intents, stmt.source)
          [] op = "Export" ->
               \E i \in DOMAIN stmt.items :
                  /\ ~Has(intents, stmt.items[i]) /\ ~Has(calculations, stmt.items[i])
                  /\ ~Has(variables, stmt.items[i]) /\ ~Has(arrays, stmt.items[i])
          [] op = "Store" -> Misses(stmt.value)
          [] op = "Calculate" -> Misses(stmt.expression)
          [] op = "ArrayPush" -> ~Has(arrays, stmt.array_name) \/ Misses(stmt.value)
          [] op = "ArrayGet" -> ~Has(arrays, stmt.array_name) \/ Misses(stmt.index)
          [] op \in {"ArrayPop", "ArraySort", "Shuffle", "ArrayFilter", "ArrayMap",
                     "Find", "Count", "Fold"} -> ~Has(arrays, stmt.array_name)
          [] op = "FunctionCall" -> ~Has(functions, stmt.function_name)
          [] op = "DictPut" -> ~Has(dicts, stmt.dict_name) \/ Misses(stmt.value)
          [] op = "DictValues" -> ~Has(dicts, stmt.dict_name)
          [] op \in {"If", "While"} -> Misses(stmt.condition)
          [] op = "Repeat" -> Misses(stmt.count)
          [] op = "Assert" -> Misses(stmt.condition)
          [] op = "Return" -> stmt.value # <<>> /\ Misses(stmt.value[1])
          [] OTHER -> FALSE

\* the step returns a runtime error and writes no namespace
FailsWithoutDefault ==
    /\ signal'.st = "err" /\ Genuine(signal'.msg)
    /\ ctl' = ctl
    /\ UNCHANGED <<intents, calculations, variables, arrays, dicts, functions,
                   call_stack, written, console, parsing>>

AbsentNumber == prog.n * (MaxCount + 1) + prog.k

SavedNext(name) == IF Has(variables', name) THEN <<variables'[name]>> ELSE <<>>

\* the statement at hand completes without an error
Completes(ops) == Executing /\ Cur.op \in ops /\ signal'.st = "run"

\* C13: a FILTER or MAP that completes leaves Variables exactly as it
\* found it: item and index hold their prior values or are absent again,
\* and no other entry has changed
FilterMapRestore ==
    /\ [][Completes({"ArrayFilter", "ArrayMap"})
            => /\ SavedNext("item") = Saved(variables, "item")
               /\ SavedNext("index") = Saved(variables, "index")
               /\ variables' = variables
               /\ Has(arrays', Cur.result_array)]_vars
    /\ [](\A k \in {0, 1} :
            /\ Finished("element", 0, k) => arrays["out"] = <<N(2), N(3)>>
            /\ Finished("element", 1, k) => arrays["out"] = <<N(10), N(21), N(32)>>
            /\ \A n \in {0, 1} :
                 Finished("element", n, k)
                   => /\ outcome.kind = "ok"
                      /\ variables =
                           IF k = 1
                           THEN [v \in {"x", "item", "index", "acc", "after"} |->
                                    CASE v = "x" -> N(5) [] v = "item" -> N(7)
                                      [] v = "index" -> N(8) [] v = "acc" -> N(9)
                                      [] OTHER -> N(1)]
                           ELSE [v \in {"x", "after"} |->
                                    IF v = "x" THEN N(5) ELSE N(1)])

\* MAP over [1, 2, 3] is done, with item = 7 and index = 8 as before it
FilterMapRestoreReached ==
    /\ Finished("element", 1, 1)
    /\ arrays["out"] = <<N(10), N(21), N(32)>>
    /\ variables["item"] = N(7)
    /\ variables["index"] = N(8)

\* C14: a FIND, COUNT or FOLD that completes leaves every Variables entry
\* other than its result variable as it found it: item and acc hold their
\* prior values, and a name that was absent is absent again
FindCountFoldRestore ==
    [][Completes({"Find", "Count", "Fold"})
         => \A name \in (DOMAIN variables) \cup (DOMAIN variables') :
               name # Cur.result_name => SavedNext(name) = Saved(variables, name)]_vars

\* C15: when the expression of a FILTER, MAP, FIND, COUNT or FOLD fails on
\* an element, the statement returns the error with item, index and acc in
\* Variables as they were before the statement
ElementErrorRestores ==
    [][(Executing
          /\ Cur.op \in {"ArrayFilter", "ArrayMap", "Find", "Count", "Fold"}
          /\ Has(arrays, Cur.array_name)
          /\ signal'.st = "err")
         => /\ SavedNext("item") = Saved(variables, "item")
            /\ SavedNext("index") = Saved(variables, "index")
            /\ SavedNext("acc") = Saved(variables, "acc")]_vars

\* the expression is LENGTH(n) or SIZE(n) as parse_primary builds it
IsBuiltinOf(expr, operator) ==
    /\ expr.e = "BinaryOp"
    /\ expr.operator = operator
    /\ expr.left.e = "Recall"

\* C16: LENGTH(n) is the length of Intents[n] whenever n is an intent, and
\* SIZE(n) the number of elements of Arrays[n] whenever n is an array,
\* whatever else is named n; when n is no intent (no array) the evaluation
\* fails
LengthSizeOfExisting ==
    [][(At("Store") /\ (IsBuiltinOf(Cur.value, "Length") \/ IsBuiltinOf(Cur.value, "Size")))
         => LET n == Cur.value.left.name
                length == Cur.value.operator = "Length"
            IN  IF (length /\ Has(intents, n)) \/ (~length /\ Has(arrays, n))
                THEN /\ signal'.st = "run"
                     /\ variables' = Put(variables, Cur.name,
                                         IF length THEN N(StrLen(intents[n]))
                                         ELSE N(Len(arrays[n])))
                ELSE signal'.st = "err" /\ variables' = variables]_vars

\* C17: two freshly constructed evaluators that execute the same statement
\* list end with the same contents of every namespace (the order of every
\* array included), the same seed, the same files written and the same
\* outcome
SameTwice == (pc = "done" /\ first # <<>>) => Snapshot = first[1]

\* the text after the first line feed of s, nothing when s has none
AfterLine(s) ==
    LET nl == IndexOf(s, "\n")
    IN  IF nl = 0 THEN <<>> ELSE SubSeq(s, nl + 1, Len(s))

\* s is made of whitespace and '#' comments only
RECURSIVE Blank(_)
Blank(s) ==
    \/ s = <<>>
    \/ is_whitespace(Head(s)) /\ Blank(Tail(s))
    \/ Head(s) = "#" /\ Blank(AfterLine(s))

\* the input the lexer has still to read
Rest(lx) == SubSeq(lx.input, lx.position + 1, Len(lx.input))

\* whitespace, a line feed, an empty comment line and a comment line
BlankTexts == {<<" ">>, <<"\n">>, <<"#", "\n">>, <<"#", "a", "\n">>, <<" ", "#", "=", "\n">>}

ReturnedEOF == returned # <<>> /\ returned[Len(returned)].t = "EOF"

Untouched ==
    /\ intents = EmptyMap /\ calculations = EmptyMap /\ variables = EmptyMap
    /\ arrays = EmptyMap /\ dicts = EmptyMap /\ functions = EmptyMap
    /\ call_stack = <<>> /\ random_seed = SeedOf(InitialSeed) /\ draws = 0
    /\ written = EmptyMap /\ console = <<>> /\ ctl = <<>> /\ signal = Run

\* the files whose second statement does not parse
Unparsable == {"bad", "late"}

ParseErrorOf(filename) ==
    <<"Parse error in '", filename, "': ", "Unexpected token in expression: ", "Plus">>

\* C19: a parse error of the main program ends the run with the evaluator
\* never made and nothing executed, also when statements that parse come
\* before the error; an IMPORT of a file with a parse error executes none of
\* the file's statements, writes nothing and fails with the runtime error
\* "Parse error in '<file>': ..", which ends the run like any other error
ParseErrorBeforeExecution ==
    /\ [](outcome.kind = "parse" => Untouched)
    /\ [](prog.id = "text_late_error" =>
            /\ pc # "run" /\ Untouched
            /\ pc = "done" =>
                  outcome = [kind |-> "parse",
                             msg |-> <<"Unexpected token in expression: ", "Plus">>])
    /\ [](prog.id = "text_import_late" =>
            /\ ~Has(variables, "z") /\ ~Has(variables, "y")
            /\ pc = "done" =>
                  /\ outcome = [kind |-> "runtime", msg |-> ParseErrorOf("late")]
                  /\ variables = Put(EmptyMap, "x", N(1)))
    /\ [][(At("Import") /\ Cur.filename \in Unparsable) =>
            /\ signal' = Err(ParseErrorOf(Cur.filename))
            /\ ctl' = ctl
            /\ UNCHANGED <<intents, calculations, variables, arrays, dicts,
                           functions, call_stack, random_seed, written>>]_vars

\* STORE x 1 / IMPORT "late" / STORE y 2 has ended with the parse error of
\* the imported file, x stored and nothing of the file executed
ParseErrorBeforeExecutionReached ==
    /\ pc = "done" /\ prog.id = "text_import_late"
    /\ outcome = [kind |-> "runtime", msg |-> ParseErrorOf("late")]
    /\ variables = Put(EmptyMap, "x", N(1))

\* how tightly an operator binds: OR < AND < additive < comparison <
\* multiplicative < power
Strength(t) ==
    CASE t = "Or" -> 1
      [] t = "And" -> 2
      [] t \in {"Plus", "Minus"} -> 3
      [] t \in {"Equal", "NotEqual", "Less", "Greater", "LessEqual", "GreaterEqual"} -> 4
      [] t \in {"Star", "Slash", "Percent"} -> 5
      [] t = "Power" -> 6

\* the tree of operands lo .. hi of the expression numbered code: its root
\* is the last of the loosest operators between them
RECURSIVE TreeOf(_, _, _)
TreeOf(code, lo, hi) ==
    IF lo = hi THEN Num(lo)
    ELSE LET S(i) == Strength(OperatorAt(code, i).t)
             root == CHOOSE j \in lo..(hi - 1) :
                        /\ \A i \in lo..(hi - 1) : S(j) <= S(i)
                        /\ \A i \in (j + 1)..(hi - 1) : S(j) < S(i)
         IN  Bin(TreeOf(code, lo, root), OperatorAt(code, root).t,
                 TreeOf(code, root + 1, hi))

\* the number of the expression with the operators ops
RECURSIVE CodeOf(_)
CodeOf(ops) ==
    IF ops = <<>> THEN 0
    ELSE (CHOOSE i \in 1..Len(ExprOperators) : ExprOperators[i].t = Head(ops)) - 1
         + Len(ExprOperators) * CodeOf(Tail(ops))

\* what executing FUNCTION f() DO RETURN <expression> END stores
Defined(tree) == [parameters |-> <<>>, body |-> <<Return(<<tree>>)>>]

\* C20: the tree parse_expression builds for 1 op 2 op .. is the one in
\* which OR binds loosest, then AND, then + -, then the comparisons, then
\* * /, then **, every level grouping to the left; 1 + 2 < 3 + 4 is
\* (1 + (2 < 3)) + 4 and 1 * 2 == 3 is (1 * 2) == 3
PrecedenceClimbing ==
    /\ outcome.kind \notin {"parse", "runtime"}
    /\ Has(functions, "f") =>
         /\ functions["f"] = Defined(TreeOf(prog.n, 1, prog.k + 1))
         /\ (prog.k = 3 /\ prog.n = CodeOf(<<"Plus", "Less", "Plus">>)) =>
               functions["f"] =
                  Defined(Bin(Bin(Num(1), "Plus", Bin(Num(2), "Less", Num(3))),
                              "Plus", Num(4)))
         /\ (prog.k = 2 /\ prog.n = CodeOf(<<"Star", "Equal">>)) =>
               functions["f"] = Defined(Bin(Bin(Num(1), "Star", Num(2)), "Equal", Num(3)))
         /\ (prog.k = 2 /\ prog.n = CodeOf(<<"Power", "Power">>)) =>
               functions["f"] = Defined(Bin(Bin(Num(1), "Power", Num(2)), "Power", Num(3)))

\* 1 + 2 < 3 + 4 has been parsed and stored as (1 + (2 < 3)) + 4
PrecedenceClimbingReached ==
    /\ pc = "done" /\ prog.id = "expression" /\ prog.k = 3
    /\ prog.n = CodeOf(<<"Plus", "Less", "Plus">>)
    /\ Has(functions, "f")
    /\ functions["f"].body[1].value[1] =
          Bin(Bin(Num(1), "Plus", Bin(Num(2), "Less", Num(3))), "Plus", Num(4))

\* how often the body of the FOR of ForProgram(n, k) runs
ForRuns(n, k) ==
    LET s == ForStep(n)
        d == IF s > 0 THEN ForEnd(n, k) - ForStart(n, k)
             ELSE ForStart(n, k) - ForEnd(n, k)
    IN  IF s = 0 \/ d < 0 THEN 0 ELSE (d \div Abs(s)) + 1

\* the body of a FOR has returned and the loop goes on with another run
ForGoesOn ==
    /\ Returned("for") /\ ForMatch(signal) \in {"ok", "continue"}
    /\ Len(ctl') = Len(ctl) /\ signal'.st = "run"

\* the runs of ForProgram: start, end and step are read once, the first
\* run sees the counter start and every later one the counter of the run
\* before plus the step, whatever the body wrote, and there are ForRuns of
\* them
ForRunsCounted ==
    /\ [](\A n, k \in 0..MaxCount : Finished("for", n, k) =>
            /\ outcome.kind = "ok"
            /\ Var("after") = <<N(1)>>
            /\ Var("runs") = IF ForRuns(n, k) = 0 THEN <<>> ELSE <<N(ForRuns(n, k))>>
            /\ Var("full") = CASE ForRuns(n, k) = 0 -> <<>>
                               [] ForRuns(n, k) = 1 -> <<N(1)>>
                               [] OTHER -> <<N(ForRuns(n, k) - 1)>>
            /\ Var("v") = IF ForRuns(n, k) = 0 THEN <<>> ELSE <<N(100)>>
            /\ Var("e") = IF ForRuns(n, k) = 0 THEN <<N(ForEnd(n, k))>>
                          ELSE <<N(0 - 9)>>)
    /\ [][(prog.id = "for" /\ At("For") /\ Len(ctl') > Len(ctl)) =>
             variables'["v"] = N(ForStart(prog.n, prog.k))]_vars
    /\ [][(prog.id = "for" /\ ForGoesOn) =>
             /\ variables["v"] = N(100)
             /\ variables'["v"] = FAdd(Top.current, N(ForStep(prog.n)))
             /\ IF ForStep(prog.n) > 0
                THEN FLe(variables'["v"], N(ForEnd(prog.n, prog.k)))
                ELSE FLe(N(ForEnd(prog.n, prog.k)), variables'["v"])]_vars

\* the counter after a run lies beyond the counter before it, in the
\* direction of the step
ForCounterMoves ==
    [][ForGoesOn =>
          IF FLt(N(0), Top.step_val)
          THEN FLt(Top.current, variables'[Top.variable])
          ELSE FLt(variables'[Top.variable], Top.current)]_vars

Absorbed(n, k) == k = 0 \/ (k = 1 /\ n % 3 # 1)

ArityMismatch ==
    /\ At("FunctionCall") /\ Has(functions, Cur.function_name)
    /\ Len(Cur.arguments) # Len(functions[Cur.function_name].parameters)

ArityMessage ==
    <<"Function '", Cur.function_name, "' expects ">>
    \o Digits(Len(functions[Cur.function_name].parameters))
    \o <<" parameters, got ">> \o Digits(Len(Cur.arguments))

\* the CALL fails here: no frame, no body statement, nothing written
CallFailsHere(msg) ==
    /\ signal' = Err(msg)
    /\ ctl' = ctl
    /\ UNCHANGED <<variables, call_stack, functions, intents, calculations, arrays>>

\* a CALL of a name that is no function fails with the not-found error
\* and changes nothing, the seed included: its arguments are not evaluated
UndefinedCallFails ==
    [][(At("FunctionCall") /\ ~Has(functions, Cur.function_name)) =>
          /\ CallFailsHere(<<"Function '", Cur.function_name, "' not found">>)
          /\ UNCHANGED <<random_seed, draws>>]_vars

\* C22 as stated: every CALL with a wrong number of arguments fails with
\* the arity error and leaves Variables, the call stack and the function
\* table as they are; a CALL of an undefined name fails with the not-found
\* error, likewise
ArityErrorAlways ==
    /\ [][ArityMismatch => CallFailsHere(ArityMessage)]_vars
    /\ UndefinedCallFails

\* C22, amended: the arguments are evaluated before they are counted; the
\* CALL with a wrong number of arguments fails with the arity error when
\* they all evaluate, and with the error of the first argument that fails
\* otherwise, in both cases without a frame, a body statement or a write
ArityErrorAfterArguments ==
    /\ [][ArityMismatch =>
            LET a == EvalArgs(Self, Cur.arguments, Rng, <<>>)
            IN  IF a.ok THEN CallFailsHere(ArityMessage)
                ELSE CallFailsHere(a.msg)]_vars
    /\ UndefinedCallFails
    /\ [](\A n, k \in 0..MaxCount : (Finished("arity", n, k) /\ (n # 2 \/ k = 3)) =>
            /\ outcome.kind = "runtime"
            /\ variables = Put(EmptyMap, "r", N(7))
            /\ call_stack = <<>>)

\* f(a, b) called with three arguments has failed: r is still 7 and the
\* body has not run
ArityErrorAfterArgumentsReached ==
    /\ Finished("arity", 3, 0)
    /\ outcome = [kind |-> "runtime",
                  msg |-> <<"Function '", "f", "' expects ", "2",
                            " parameters, got ", "3">>]
    /\ variables = Put(EmptyMap, "r", N(7))

\* the index of the GET or SET at hand evaluates to a value below 0 or not
\* below the length of the array
OutOfBounds ==
    /\ Has(arrays, Cur.array_name)
    /\ Eval(Cur.index).ok
    /\ \/ FLt(Eval(Cur.index).val, N(0))
       \/ FLe(N(Len(arrays[Cur.array_name])), Eval(Cur.index).val)

\* C23: GET and SET with an index below 0 or not below the length of the
\* array fail with "Array index .. out of bounds .." and leave the array
\* and Variables as they are; on a missing array they fail with
\* "Array '..' not found"; FETCH fails with "Key '..' not found in
\* dictionary '..'" on a missing key and with "Dictionary '..' not found"
\* on a missing dictionary
IndexAndContainerErrors ==
    /\ [][((At("ArrayGet") \/ At("ArraySet")) /\ OutOfBounds) =>
            /\ signal'.st = "err" /\ Head(signal'.msg) = "Array index "
            /\ UNCHANGED <<arrays, variables>>]_vars
    /\ [][((At("ArrayGet") \/ At("ArraySet")) /\ ~Has(arrays, Cur.array_name)
            /\ Eval(Cur.index).ok) =>
            /\ signal' = Err(<<"Array '", Cur.array_name, "' not found">>)
            /\ UNCHANGED <<arrays, variables>>]_vars
    /\ [][At("DictFetch") =>
            IF ~Has(dicts, Cur.dict_name)
            THEN /\ signal' = Err(<<"Dictionary '", Cur.dict_name, "' not found">>)
                 /\ UNCHANGED <<dicts, variables>>
            ELSE IF ~Has(dicts[Cur.dict_name], Cur.key)
            THEN /\ signal' = Err(<<"Key '", Cur.key, "' not found in dictionary '",
                                   Cur.dict_name, "'">>)
                 /\ UNCHANGED <<dicts, variables>>
            ELSE /\ signal'.st = "run"
                 /\ variables' = Put(variables, Cur.result_name,
                                     dicts[Cur.dict_name][Cur.key])]_vars


(***************************************************************************)
(* C24.  COMBINE and PRINT resolve a placeholder ${n} to Intents[n] if     *)
(* there is one, else to Calculations[n], else to Variables[n], the        *)
(* reverse of the order RECALL probes the two numeric maps in, else to     *)
(* "<n not found>"; the innermost call frame is never probed, and the      *)
(* statement never fails.                                                  *)
(***************************************************************************)
\* the text the claim gives the placeholder of the name n
Probed(n) ==
    CASE Has(intents, n) -> intents[n]
      [] ~Has(intents, n) /\ Has(calculations, n) -> Str(FormatF64(calculations[n]))
      [] ~Has(intents, n) /\ ~Has(calculations, n) /\ Has(variables, n) ->
           Str(FormatF64(variables[n]))
      [] OTHER -> "<" \o n \o " not found>"

\* the text of x in the program of placeholders, whatever the frame holds
TextOfX ==
    CASE prog.k % 2 = 1 -> "hi"
      [] prog.k % 2 = 0 /\ (prog.n \div 2) % 2 = 1 -> "2.5"
      [] prog.k % 2 = 0 /\ (prog.n \div 2) % 2 = 0 /\ prog.n % 2 = 1 -> "7"
      [] OTHER -> "<x not found>"

\* C24: a COMBINE or a PRINT stores or writes the texts of its parts, a
\* placeholder's text found in Intents, Calculations, Variables in this
\* order and never in a call frame, and it never fails; PRINT puts a space
\* between its items and trims the line
PlaceholderOrder ==
    /\ [][At("Combine") =>
            /\ signal' = Run
            /\ Probed("x") = TextOfX
            /\ intents' = Put(intents, "c",
                              "v=" \o Probed("x") \o " " \o Probed("q") \o "${}")
            /\ UNCHANGED <<calculations, variables, call_stack, console>>]_vars
    /\ [][At("Print") =>
            /\ signal' = Run
            /\ console' = Append(console,
                                 "v= " \o Probed("x") \o " " \o Probed("x"))
            /\ UNCHANGED <<intents, calculations, variables, call_stack>>]_vars
    /\ [](prog.id = "combine" /\ Has(variables, "after") =>
            /\ intents["c"] = "v=" \o TextOfX \o " <q not found>${}"
            /\ console = <<"v= " \o TextOfX \o " " \o TextOfX>>)

\* in the body of f(x) called with 9, x being 7 in Variables and 2.5 in
\* Calculations: both statements took 2.5, and RECALL took the argument
PlaceholderOrderReached ==
    /\ Finished("combine", 3, 2)
    /\ intents["c"] = "v=2.5 <q not found>${}"
    /\ console = <<"v= 2.5 2.5">>
    /\ variables["rec"] = N(9)


(***************************************************************************)
(* C25.  IMPORT of a unit that directly or transitively imports itself     *)
(* never completes: every IMPORT reads, parses and executes its target     *)
(* again, nothing records the units in progress, so the nesting of execute *)
(* grows without bound and no statement after the first cyclic IMPORT is   *)
(* reached.                                                                *)
(***************************************************************************)
\* the files from which an IMPORT leads back to the file itself
RECURSIVE Imports(_, _)
Imports(f, steps) ==
    IF steps = 0 \/ ~Has(Files, f) THEN {}
    ELSE LET r == parse(Parser_new(Lexer_new(Files[f])))
             direct == IF r.ok
                       THEN {r.val[i].filename :
                               i \in {j \in 1..Len(r.val) : r.val[j].op = "Import"}}
                       ELSE {}
         IN  direct \cup UNION {Imports(g, steps - 1) : g \in direct}

CyclicUnits == {f \in DOMAIN Files : f \in Imports(f, Cardinality(DOMAIN Files))}

\* an IMPORT of a cyclic unit has been entered
InCycle == Len(ctl) > 1 /\ prog.id = "cycle" /\ prog.k \in 0..2

\* C25: once a cyclic IMPORT is entered no execute call returns, every
\* further IMPORT adds a nesting level and runs the file's first statements
\* again, and neither the statement after an IMPORT nor the end of the run
\* is reached
CyclicImportNeverCompletes ==
    /\ CyclicUnits = {"self", "ping", "pong"}
    /\ [][InCycle => InCycle' /\ Len(ctl') >= Len(ctl)]_vars
    /\ [][(At("Import") /\ Cur.filename \in CyclicUnits /\ Len(ctl) <= MaxDepth) =>
            /\ Len(ctl') = Len(ctl) + 1
            /\ ctl'[Len(ctl')].stmts = parse(Parser_new(Lexer_new(Files[Cur.filename]))).val
            /\ signal' = Run]_vars
    /\ [](prog.id = "cycle" /\ prog.k \in 0..2 =>
            /\ pc # "done"
            /\ ~Has(variables, "after") /\ ~Has(variables, "w")
            /\ signal.st # "err")

\* the file that imports itself is being executed for the third time
CyclicImportReached ==
    /\ prog = [id |-> "cycle", n |-> 1, k |-> 0]
    /\ Len(ctl) = 4
    /\ variables["z"] = N(3)
    /\ variables["pre"] = N(1)


(***************************************************************************)
(* C26.  parse() terminates on every finite token sequence: every          *)
(* iteration of the top-level loop and of every body, parameter and        *)
(* argument loop consumes at least one token or returns an error; and a    *)
(* compound statement (REPEAT, IF, WHILE, FOR, TRY/CATCH, FUNCTION,        *)
(* SWITCH) whose terminator does not appear before the end of the input    *)
(* makes parse() fail instead of returning a statement list.               *)
(***************************************************************************)
\* the tokens the parser has not consumed
Remaining(p) == Len(p.lexer) + (IF p.current_token.t = "EOF" THEN 0 ELSE 1)

Occurrences(ws, set) == Cardinality({i \in 1..Len(ws) : ws[i] \in set})

\* more compound statements are opened than END closes, or a TRY has no CATCH
Unterminated(ws) ==
    \/ Occurrences(ws, Openers) > Occurrences(ws, WordsOf(<<"E", "N", "D">>))
    \/ Occurrences(ws, WordsOf(<<"T", "R", "Y">>))
         > Occurrences(ws, WordsOf(<<"C", "A", "T", "C", "H">>))

\* C26: every iteration of parse() consumes a token or ends the call with
\* an error, the call ends, its result is that of the loops run to their
\* end, and it is an error when a compound statement is not terminated
ParseTerminates ==
    /\ [][parsing[1].result = <<>> =>
            \/ parsing'[1].result # <<>>
            \/ Remaining(parsing'[1].parser) < Remaining(parsing[1].parser)]_vars
    /\ <>(parsing[1].result # <<>>)
    /\ [](parsing[1].result # <<>> =>
            LET r == parsing[1].result[1]
                whole == parse(Parser_new(lexing))
            IN  /\ r.ok = whole.ok
                /\ r.ok => r.val = whole.val /\ Remaining(r.p) = 0
                /\ ~r.ok => r.msg = whole.msg
                /\ Unterminated(prog.words) => ~r.ok)

\* WHILE 0 DO / IF 1 THEN / END: the END closes the IF, the WHILE is open
\* at the end of the input, and parse() has returned the error
ParseTerminatesReached ==
    /\ WordsText(prog.words)
         = <<"W", "H", "I", "L", "E", " ", "0", " ", "D", "O", "\n",
             "I", "F", " ", "1", " ", "T", "H", "E", "N", "\n", "E", "N", "D", "\n">>
    /\ parsing[1].result = <<PErr(<<"Expected END to close WHILE">>)>>
    /\ parsing[1].statements = <<>>


(***************************************************************************)
(* C27.  A BREAK or CONTINUE executed in a function body outside any loop  *)
(* of that body is not confined to the call: the call site pops its frame  *)
(* and re-propagates the signal, so it breaks or continues the loop that   *)
(* encloses the CALL in the caller; when no loop encloses it anywhere      *)
(* (likewise a RETURN executed outside any function call) the top-level    *)
(* execute returns the signal as a failure (BREAK, CONTINUE,               *)
(* RETURN:<value>) and all remaining statements are skipped.               *)
(***************************************************************************)
NoneBound(names) == \A v \in names : ~Has(variables, v)

FailedWith(msg) == outcome = [kind |-> "runtime", msg |-> msg]

\* how the run of EscapeProgram(n, k) has ended, for BREAK and CONTINUE in h
EscapedFromCall(n, k) ==
    LET msg == IF k = 0 THEN BreakMsg ELSE ContinueMsg
    IN  /\ call_stack = <<>>
        /\ NoneBound({"h_after", "after_stmt", "r"})
        /\ IF n \in 1..3
           THEN \* the loop in the caller is left at once, or runs both times
                /\ outcome.kind = "ok"
                /\ variables["i"] = N(IF k = 0 THEN 1 ELSE 2)
                /\ variables["in_h"] = variables["i"]
                /\ variables["after"] = N(1)
           ELSE /\ FailedWith(msg)
                /\ variables["i"] = N(1) /\ variables["in_h"] = N(1)
                /\ NoneBound({"after"})

\* C27: a call whose body returns BREAK or CONTINUE pops its frame, writes
\* no result and returns the same signal; the loop around the CALL takes it
\* as its own, and without such a loop, as for a RETURN outside any call,
\* the run fails with the signal and executes nothing more
SignalsEscapeCalls ==
    /\ [][(Returned("call") /\ signal.st = "err"
                /\ signal.msg \in {BreakMsg, ContinueMsg}) =>
            /\ call_stack' = Front(call_stack)
            /\ ctl' = Front(ctl)
            /\ signal' = signal
            /\ variables' = variables]_vars
    /\ [](pc = "done" /\ prog.id = "escape" =>
            CASE prog.k \in {0, 1} -> EscapedFromCall(prog.n, prog.k)
              [] prog.k = 2 /\ prog.n \in 0..3 ->
                   /\ FailedWith(ReturnMsg(N(7)))
                   /\ variables["i"] = N(1)
                   /\ NoneBound({"after_stmt", "after"})
              [] prog.k = 2 /\ prog.n > 3 ->
                   /\ outcome.kind = "ok"
                   /\ variables["r"] = N(7) /\ variables["after"] = N(1)
                   /\ NoneBound({"after_stmt"})
              [] OTHER ->
                   /\ outcome.kind = "ok"
                   /\ variables["in_h"] = variables["i"]
                   /\ variables["h_after"] = N(1) /\ variables["after"] = N(1)
                   /\ variables["after_stmt"] = variables["i"])

\* CONTINUE in h, called in a WHILE that runs twice: both runs were cut
\* short at the CALL and the statement after the loop was executed
SignalsEscapeCallsReached ==
    /\ Finished("escape", 2, 1)
    /\ outcome.kind = "ok"
    /\ variables["in_h"] = N(2)
    /\ ~Has(variables, "after_stmt")
    /\ variables["after"] = N(1)


(***************************************************************************)
(* C28.  During a function call the frame is read-only: STORE, INCREMENT,  *)
(* DECREMENT and FOR-variable writes to a name that is also a parameter    *)
(* write the global Variables entry and never the frame, so RECALL of a    *)
(* parameter returns the argument for the whole duration of the call       *)
(* whatever is written, and the global entry written by the body persists  *)
(* after the call returns; only the innermost frame is consulted, so a     *)
(* callee never sees its caller's parameters.                              *)
(***************************************************************************)
\* a step pushes one frame, pops one, or leaves the stack; the frames that
\* stay are as they were
FramesKept ==
    \/ call_stack' = call_stack
    \/ call_stack' = Front(call_stack) /\ call_stack # <<>>
    \/ call_stack' # <<>> /\ Front(call_stack') = call_stack
    \/ first' # first

\* the name a STORE, INCREMENT or DECREMENT writes
Written == IF Cur.op = "Store" THEN Cur.name ELSE Cur.variable

\* Variables[x] as the body of f leaves it
WrittenX ==
    LET base == IF prog.n % 2 = 1 THEN 3 ELSE 0
    IN  CASE prog.k = 0 -> N(50)
          [] prog.k = 1 -> N(base + 1)
          [] prog.k = 2 -> N(base - 1)
          [] prog.k = 3 -> N(6)
          [] OTHER -> N(0)

\* C28: no step changes a frame on the call stack; a write to a parameter's
\* name in the body goes to Variables and stays there after the call, the
\* parameter reads as the argument before and after it, and the callee
\* reads Variables for its caller's parameter names
FrameReadOnly ==
    /\ [][FramesKept]_vars
    /\ [][(pc = "run" /\ signal.st = "run" /\ Top.stmts # <<>>
              /\ Cur.op \in {"Store", "Increment", "Decrement"} /\ call_stack # <<>>
              /\ Has(Last(call_stack), Written) /\ signal'.st = "run"
              /\ first' = first) =>
            /\ call_stack' = call_stack
            /\ Has(variables', Written)]_vars
    /\ [](prog.id = "frame" /\ Has(variables, "got") =>
            /\ variables["before"] = N(9)
            /\ variables["got"] = N(9)
            /\ prog.k = 3 => variables["seen"] = N(9)
            /\ variables["x"] = WrittenX)
    /\ [](prog.id = "frame" /\ Has(variables, "inner") =>
            /\ variables["inner"] = WrittenX
            /\ ~Has(variables, "inner_p"))
    /\ [](pc = "done" /\ prog.id = "frame" =>
            /\ call_stack = <<>>
            /\ variables["x"] = WrittenX
            /\ IF (prog.n \div 2) % 2 = 0
               THEN /\ outcome.kind = "ok"
                    /\ variables["r"] = N(9)
                    /\ variables["out"] = WrittenX
               ELSE /\ outcome = [kind |-> "runtime",
                                  msg |-> <<"Variable '", "p", "' not found">>]
                    /\ NoneBound({"r", "out", "p"}))

\* f(9, 8) has returned 9 after INCREMENT x in its body raised the global x
\* from 3 to 4, which g read in between
FrameReadOnlyReached ==
    /\ Finished("frame", 1, 1)
    /\ variables["x"] = N(4) /\ variables["inner"] = N(4)
    /\ variables["got"] = N(9) /\ variables["r"] = N(9)
    /\ variables["out"] = N(4)


(***************************************************************************)
(* C29.  RANGE start end [STEP s] into r terminates if and only if         *)
(* start > end or s > 0: with s > 0 it stores in Arrays[r] the values      *)
(* start, start+s, ... that are <= end (the empty array when start > end); *)
(* with start <= end and s <= 0 the generating loop never exits, because   *)
(* unlike FOR it has no descending branch and no zero-step guard.          *)
(***************************************************************************)
\* the loop of a RANGE is about to run once more
RangeGoesOn == At("RangeLoop") /\ FLe(Cur.current, Cur.end_val)

\* the statement in execution after the step
CurAfter == ctl'[Len(ctl')].stmts[1]

\* the values 0 .. count - 1 times step from start
Multiples(start, step, count) == [i \in 1..count |-> N(start + (i - 1) * step)]

\* what the RANGE of RangeProgram(n, k) stores when it ends
RangeOf(n, k) ==
    CASE k = 0 -> Multiples(1, 1, n)
      [] k = 1 -> Multiples(0, 2, (n \div 2) + 1)
      [] k = 2 -> <<>>
      [] k = 3 -> <<Near(0).n, Near(4).n, Near(8).n>>
      [] OTHER -> Multiples(1, 3, (n + 2) \div 3)

\* a RANGE that ends has stored the values from start in steps of s up to
\* end, and the next statement has run
RangeStores ==
    /\ [][RangeGoesOn =>
            /\ CurAfter.op = "RangeLoop"
            /\ CurAfter.range_array = Append(Cur.range_array, Cur.current)
            /\ CurAfter.current = FAdd(Cur.current, Cur.step_val)
            /\ arrays' = arrays]_vars
    /\ [](prog.id = "range" /\ pc = "done" =>
            /\ outcome.kind = "ok"
            /\ arrays["r"] = RangeOf(prog.n, prog.k)
            /\ variables["after"] = N(1))

\* with a step that is not positive the loop test stays true
RangeNeverExits ==
    /\ [][(RangeGoesOn /\ FLe(Cur.step_val, N(0))) =>
            FLe(CurAfter.current, CurAfter.end_val)]_vars
    /\ [](prog.id = "range" /\ prog.k = 2 /\ prog.n >= 2 =>
            pc # "done" /\ ~Has(arrays, "r") /\ ~Has(variables, "after"))
    /\ [](prog.id = "range" /\ prog.k = 2 /\ prog.n < 2 /\ Has(variables, "after") =>
            arrays["r"] = <<>>)

\* C29 as stated: with a positive step every iteration moves the counter
\* towards the end, so the RANGE ends; with start <= end and another step
\* it never does
RangeTerminates ==
    /\ RangeStores
    /\ RangeNeverExits
    /\ [][(RangeGoesOn /\ FLt(N(0), Cur.step_val)) =>
            FLt(Cur.current, CurAfter.current)]_vars

\* the RANGE of RangeProgram(n, 3) never ends: adding the step leaves the
\* counter where it is
RangeAbsorbed(n, k) == k = 3 /\ n < 2

\* C29, amended: as stated wherever adding the positive step changes the
\* counter; where it does not, the loop pushes the same value for ever
RangeTerminatesUnlessAbsorbed ==
    /\ RangeStores
    /\ RangeNeverExits
    /\ [][(RangeGoesOn /\ FLt(N(0), Cur.step_val)
              /\ FAdd(Cur.current, Cur.step_val) # Cur.current) =>
            FLt(Cur.current, CurAfter.current)]_vars
    /\ [][(RangeGoesOn /\ FAdd(Cur.current, Cur.step_val) = Cur.current) =>
            /\ CurAfter.current = Cur.current
            /\ FLe(CurAfter.current, CurAfter.end_val)]_vars
    /\ [](prog.id = "range" /\ RangeAbsorbed(prog.n, prog.k) =>
            pc # "done" /\ ~Has(arrays, "r"))
    /\ [](prog.id = "range" /\ prog.k # 2 /\ ~RangeAbsorbed(prog.n, prog.k)
            /\ pc = "run" /\ Len(ctl) = 1 /\ Top.stmts # <<>>
            /\ Cur.op = "RangeLoop" =>
              Len(Cur.range_array) < MaxRange)

\* RANGE 0 3 STEP 2 has stored [0, 2] and the next statement has run
RangeTerminatesReached ==
    /\ Finished("range", 3, 1)
    /\ arrays["r"] = <<N(0), N(2)>>
    /\ variables["after"] = N(1)


(***************************************************************************)
(* C30.  AND and OR never short-circuit: both operands of every binary     *)
(* node are evaluated, left then right, before the operator is applied, so *)
(* an error in the right operand (division by zero, undefined RECALL)      *)
(* fails the whole expression even when the left operand alone decides the *)
(* result, and a RANDOM() in the right operand always advances the seed.   *)
(***************************************************************************)
\* the statement in execution stores an AND or an OR
AtLogic ==
    /\ At("Store") /\ Cur.value.e = "BinaryOp"
    /\ Cur.value.operator \in {"And", "Or"}

\* the value of left AND right or left OR right
Logic(op, l, r) ==
    IF op = "And" THEN Bool(l # N(0) /\ r # N(0)) ELSE Bool(l # N(0) \/ r # N(0))

\* the value the run of LogicProgram(n, k) stores: no draw is 0
LogicValue(n) == Logic(IF n % 2 = 0 THEN "And" ELSE "Or", N(n \div 2), N(1))

\* how the run of LogicProgram(n, k) has ended
LogicOutcome(n, k) ==
    /\ variables["s"] = LogicValue(n)
    /\ CASE k = 0 -> /\ FailedWith(<<"Division by zero">>)
                     /\ draws = 1 /\ random_seed = LcgSeeds[2]
                     /\ variables["r"] = N(7) /\ ~Has(variables, "after")
         [] k = 1 -> /\ FailedWith(<<"Variable '", "nowhere", "' not found">>)
                     /\ draws = 1 /\ random_seed = LcgSeeds[2]
                     /\ variables["r"] = N(7) /\ ~Has(variables, "after")
         [] OTHER -> /\ outcome.kind = "ok"
                     /\ draws = 2 /\ random_seed = LcgSeeds[3]
                     /\ variables["r"] = LogicValue(n)
                     /\ variables["after"] = N(1)

BothOperandsEvaluated ==
    /\ [][AtLogic =>
            LET l == Eval(Cur.value.left)
                r == evaluate_expression(Self, Cur.value.right, l.rng)
            IN  IF ~l.ok
                THEN signal'.st = "err" /\ signal'.msg = l.msg /\ variables' = variables
                ELSE IF ~r.ok
                THEN signal'.st = "err" /\ signal'.msg = r.msg /\ variables' = variables
                ELSE /\ draws' = draws + RandomNodes(Cur.value)
                     /\ variables' = Put(variables, Cur.name,
                                         Logic(Cur.value.operator, l.val, r.val))]_vars
    /\ [](\A n, k \in 0..MaxCount : Finished("logic", n, k) => LogicOutcome(n, k))

\* 1 OR RANDOM() has advanced the seed, and 1 OR (1 / 0) has failed with the
\* division by zero
BothOperandsEvaluatedReached ==
    /\ Finished("logic", 3, 0)
    /\ variables["s"] = N(1) /\ draws = 1
    /\ FailedWith(<<"Division by zero">>)
    /\ variables["r"] = N(7)
====
